---- MODULE Spec2Model ----
(***************************************************************************)
(* Model of the reference-counting engine of chan-sccp (sccp_refcount.c,   *)
(* carried in src/src/sccp_hint.c from line 1308 on): the hashed object    *)
(* directory objects[], the object headers, sccp_refcount_object_alloc,    *)
(* sccp_refcount_retain / _release / _replace, sccp_refcount_init and      *)
(* sccp_refcount_destroy.                                                  *)
(*                                                                         *)
(* Threads are OS threads; every step of a thread is one shared-memory     *)
(* access or one critical section (lock .. unlock) of the C code.  A       *)
(* payload address identifies its header (ptr == obj->data); the allocator *)
(* hands every block out at most once within a run.                        *)
(***************************************************************************)
EXTENDS Integers, Sequences, FiniteSets, TLC

\* ----------------------------------------------------------------- bounds
NumThreads == 2
NumAddr == 3
NumTypes == 2
NumSlots == 1
MaxCalls == 4
\* the table size; config.h makes it a configure-time value (default 563)
SCCP_HASH_PRIME == 2

\* ------------------------------------------------------ program constants
SCCP_LIVE_MARKER == 13
\* enum sccp_refcount_runstate (sccp_refcount.h, not part of src/)
SCCP_REF_RUNNING == 1
SCCP_REF_STOPPED == 0
SCCP_REF_DESTROYED == -1

NULL == 0
Threads == 1..NumThreads
Addr == 1..NumAddr
Types == 0..(NumTypes - 1)
Hashes == 0..(SCCP_HASH_PRIME - 1)
Slots == 1..NumSlots
\* destructor function pointers a caller can pass (0 is a NULL destructor)
Dtors == 1..2

VARIABLES
    runState,      \* static enum sccp_refcount_runstate runState
    obj_info,      \* obj_info[type].destructor (NULL = 0)
    heap,          \* the RefCountedObject blocks, by payload address
    objects,       \* the hash table *objects[SCCP_HASH_PRIME]
    objectslock,   \* 0 free, t write-held by thread t, -1 not initialised or destroyed
    slot,          \* reference variables of the callers (replace targets)
    th,            \* per thread: program counter and locals
    ncalls,        \* calls made so far, by all threads (bounded)
    numObjects,    \* the count sccp_refcount_destroy reports
    dcalls,        \* per address: number of destructor invocations
    dby,           \* per address: who invoked the destructor, and on what
    refs,          \* per thread and address: references the thread owns
    ub,            \* "none", "ub" (undefined behaviour happened, the run went on) or "crash"
    sccp_hint_subscriptions,  \* the list of hints (line 79): its lock and its entries
    hints,         \* the sccp_hint_list_t blocks allocated, by address
    devrefs        \* per device: references the subscriber entries own

\* the state of the hint module
hintvars == <<sccp_hint_subscriptions, hints, devrefs>>

vars == <<runState, obj_info, heap, objects, objectslock, slot, th, ncalls,
          numObjects, dcalls, dby, refs, ub, hintvars>>

\* the state of the refcount engine
enginevars == <<runState, obj_info, heap, objects, objectslock, slot,
                numObjects, dcalls, dby, refs>>

\* devices that subscribe, and the hint blocks sccp_malloc can hand out
NumDevs == 2

NumHints == 2

Devs == 1..NumDevs

\* a hint block as sccp_hint_create allocates it (lines 1122-1125): lock is
\* the thread holding SCCP_LIST_LOCK(&hint->subscribers) (0 when free),
\* subscribers the entries' device pointers, head first
NewHint == [st |-> "used", exten |-> "", context |-> "", lock |-> 0,
            subscribers |-> <<>>, currentState |-> "none",
            previousState |-> "none"]

\* line 88: SCCP_LIST_HEAD_INIT(&sccp_hint_subscriptions); no hint block has
\* been allocated (hints holds the blocks in the order of their allocation,
\* at most NumHints)
NoHints ==
    /\ sccp_hint_subscriptions = [lock |-> 0, list |-> <<>>]
    /\ hints = <<>>
    /\ devrefs = [d \in Devs |-> 0]

\* ---------------------------------------------------------------- helpers
\* line 1366
SCCP_SIMPLE_HASH(a) == a % SCCP_HASH_PRIME

\* line 1520: the identifier an allocation gives its object; identifiers
\* are labels that stand for the strings, 0 for the empty string of a zeroed
\* header
NewIdentifier == 1

FreshHeader == [st |-> "free", refcount |-> 0, alive |-> 0, type |-> 0, identifier |-> 0]
\* memset(obj, 0, sizeof(RefCountedObject)); sccp_free(obj)
FreedHeader == [st |-> "freed", refcount |-> 0, alive |-> 0, type |-> 0, identifier |-> 0]
NoBucket == [exists |-> FALSE, list |-> <<>>]

IdleThread == [pc |-> "idle", op |-> "none", cont |-> "none", ptr |-> NULL,
               obj |-> NULL, refcountval |-> 0, newrefcountval |-> 0,
               cleanup_objects |-> FALSE, removed |-> NULL, ret |-> NULL,
               type |-> 0, destructor |-> NULL, sawdtor |-> NULL,
               replaceptr |-> NULL, newptr |-> NULL, oldPtr |-> NULL,
               hash |-> 0, after |-> FALSE, stopped |-> FALSE, held |-> NULL,
               rc0 |-> 0, rc1 |-> 0, locks |-> {}, dhash |-> 0, dobj |-> NULL,
               identifier |-> 0]

InList(list, a) == \E i \in 1..Len(list) : list[i] = a

InsertHead_bug(list, a) == <<a, a>> \o list

\* SCCP_RWLIST_INSERT_HEAD (lines 1541 and 1547)
InsertHead(list, a) == <<a>> \o list

\* SCCP_RWLIST_REMOVE_CURRENT (line 1650) on the entry the traversal stopped at
RemoveFirst_bug(list, a) == Tail(list)

RECURSIVE RemoveFirst(_, _)
RemoveFirst(list, a) ==
    IF list = <<>> THEN <<>>
    ELSE IF Head(list) = a THEN Tail(list)
    ELSE <<Head(list)>> \o RemoveFirst(Tail(list), a)

OfType(list, ty) == {list[i] : i \in {j \in 1..Len(list) : heap[list[j]].type = ty}}

Running == ub # "crash"
At(t, label) == Running /\ th[t].pc = label

\* lines 1602-1631, under the bucket's read lock
find_obj_bug(ptr) ==
    IF ptr = NULL THEN NULL
    ELSE IF objects[SCCP_SIMPLE_HASH(ptr)].exists
            /\ InList(objects[SCCP_SIMPLE_HASH(ptr)].list, ptr)
         THEN ptr ELSE NULL

sccp_refcount_find_obj(ptr) ==
    IF ptr = NULL THEN NULL
    ELSE IF objects[SCCP_SIMPLE_HASH(ptr)].exists
            /\ InList(objects[SCCP_SIMPLE_HASH(ptr)].list, ptr)
            /\ heap[ptr].alive = SCCP_LIVE_MARKER
         THEN ptr ELSE NULL

\* thread t's call returns v to its caller: the locals of the call are gone,
\* what the caller passed and gets back stays until its next call
Returned(t, v) ==
    [IdleThread EXCEPT !.pc = "ret", !.op = th[t].op, !.ret = v,
        !.ptr = IF th[t].op \in {"retain", "release", "updateIdentifier"}
                THEN th[t].ptr ELSE NULL,
        !.identifier = th[t].identifier,
        !.after = th[t].after, !.stopped = th[t].stopped,
        !.replaceptr = th[t].replaceptr,
        !.newptr = th[t].newptr, !.held = th[t].held,
        !.rc0 = th[t].rc0, !.rc1 = th[t].rc1]

\* a retain or release that ends with value v: back to the caller, which is
\* the client or sccp_refcount_replace
Finish(t, v) ==
    IF th[t].cont = "none" \/ th[t].cont = "ret"
    THEN Returned(t, IF th[t].cont = "ret" THEN NULL ELSE v)
    ELSE [th[t] EXCEPT !.pc = th[t].cont, !.cont = "none", !.ret = v]

\* ------------------------------------------------------------- init
sccp_refcount_init(t) ==
    /\ At(t, "init")
    /\ objectslock' = 0
    /\ runState' = SCCP_REF_RUNNING
    /\ th' = [th EXCEPT ![t] = Returned(t, NULL)]
    /\ UNCHANGED <<obj_info, heap, objects, slot, ncalls, numObjects, dcalls,
                   dby, refs, ub, hintvars>>

\* ------------------------------------------------------------- allocation
\* lines 1503-1511: the runState test, then calloc of header + payload; the
\* read of obj_info[type].destructor of line 1513 is taken here
NotRunningYet_bug == FALSE

\* if (!runState)
NotRunningYet == runState = 0

object_alloc_check(t) ==
    /\ At(t, "alloc_check")
    /\ IF NotRunningYet
       THEN /\ th' = [th EXCEPT ![t] = Returned(t, NULL)]
            /\ UNCHANGED heap
       ELSE \/ \* sccp_calloc fails
               /\ th' = [th EXCEPT ![t] = Returned(t, NULL)]
               /\ UNCHANGED heap
            \/ \E a \in Addr :
               /\ heap[a].st = "free"
               /\ heap' = [heap EXCEPT ![a] = [st |-> "used", refcount |-> 0,
                                               alive |-> 0, type |-> 0, identifier |-> 0]]
               /\ th' = [th EXCEPT ![t] = [@ EXCEPT !.pc = "alloc_register",
                                 !.obj = a,
                                 !.sawdtor = obj_info[th[t].type]]]
    /\ UNCHANGED <<runState, obj_info, objects, objectslock, slot, ncalls,
                   numObjects, dcalls, dby, refs, ub, hintvars>>

\* lines 1513-1529: first registrant's destructor, the header's fields, the
\* hash of the payload address and the unlocked test of objects[hash]
InitialRefcount_bug == 1 - 1

InitialRefcount == 1

object_alloc_register(t) ==
    /\ At(t, "alloc_register")
    /\ LET a == th[t].obj
           h == SCCP_SIMPLE_HASH(a)
       IN /\ obj_info' = IF th[t].sawdtor = NULL
                         THEN [obj_info EXCEPT ![th[t].type] = th[t].destructor]
                         ELSE obj_info
          /\ heap' = [heap EXCEPT ![a] = [@ EXCEPT !.type = th[t].type,
                                             !.refcount = InitialRefcount,
                                             !.identifier = NewIdentifier]]
          /\ th' = [th EXCEPT ![t] = [@ EXCEPT !.hash = h,
                        !.pc = IF ~objects[h].exists THEN "alloc_create"
                               ELSE "alloc_insert"]]
    /\ UNCHANGED <<runState, objects, objectslock, slot, ncalls, numObjects,
                   dcalls, dby, refs, ub, hintvars>>

\* lines 1531-1543, under the write lock of objectslock: the bucket is created
\* and the header inserted only if objects[hash] is still NULL
object_alloc_create(t) ==
    /\ At(t, "alloc_create")
    /\ objectslock = 0
    /\ LET a == th[t].obj
           h == th[t].hash
       IN IF ~objects[h].exists
          THEN \/ \* sccp_calloc of the hashtable head fails: sccp_free(obj)
                  /\ heap' = [heap EXCEPT ![a] = [FreedHeader EXCEPT !.st = "free"]]
                  /\ th' = [th EXCEPT ![t] = Returned(t, NULL)]
                  /\ UNCHANGED objects
               \/ /\ objects' = [objects EXCEPT ![h] = [exists |-> TRUE,
                                         list |-> InsertHead(<<>>, a)]]
                  /\ th' = [th EXCEPT ![t] = [@ EXCEPT !.pc = "alloc_alive"]]
                  /\ UNCHANGED heap
          ELSE /\ th' = [th EXCEPT ![t] = [@ EXCEPT !.pc = "alloc_alive"]]
               /\ UNCHANGED <<heap, objects, hintvars>>
    /\ UNCHANGED <<runState, obj_info, objectslock, slot, ncalls, numObjects,
                   dcalls, dby, refs, ub, hintvars>>

\* lines 1546-1548, under the bucket's write lock
object_alloc_insert(t) ==
    /\ At(t, "alloc_insert")
    /\ objects[th[t].hash].exists
    /\ objects' = [objects EXCEPT ![th[t].hash] =
                      [@ EXCEPT !.list = InsertHead(@, th[t].obj)]]
    /\ th' = [th EXCEPT ![t] = [@ EXCEPT !.pc = "alloc_alive"]]
    /\ UNCHANGED <<runState, obj_info, heap, objectslock, slot, ncalls,
                   numObjects, dcalls, dby, refs, ub, hintvars>>

\* lines 1552-1561
object_alloc_alive(t) ==
    /\ At(t, "alloc_alive")
    /\ heap' = [heap EXCEPT ![th[t].obj] = [@ EXCEPT !.alive = SCCP_LIVE_MARKER]]
    /\ th' = [th EXCEPT ![t] = Returned(t, th[t].obj)]
    /\ UNCHANGED <<runState, obj_info, objects, objectslock, slot, ncalls,
                   numObjects, dcalls, dby, refs, ub, hintvars>>

\* ------------------------------------------------------------------ retain
\* line 1865
retain_find(t) ==
    /\ At(t, "retain_find")
    /\ LET o == sccp_refcount_find_obj(th[t].ptr)
       IN th' = [th EXCEPT ![t] =
                    IF o = NULL THEN Finish(t, NULL)
                    ELSE [@ EXCEPT !.obj = o, !.pc = "retain_incr"]]
    /\ UNCHANGED <<runState, obj_info, heap, objects, objectslock, slot, ncalls,
                   numObjects, dcalls, dby, refs, ub, hintvars>>

\* lines 1869-1875: ATOMIC_INCR(&obj->refcount, 1), return obj->data
RetainDelta_bug == 1 + 1

RetainDelta == 1

\* line 1875: return (void * const) obj->data;
RetainResult_bug(t) == (th[t].obj % NumAddr) + 1

RetainResult(t) == th[t].obj

retain_incr(t) ==
    /\ At(t, "retain_incr")
    /\ heap[th[t].obj].st = "used"
    /\ heap' = [heap EXCEPT ![th[t].obj] =
                   [@ EXCEPT !.refcount = @ + RetainDelta]]
    /\ th' = [th EXCEPT ![t] = Finish(t, RetainResult(t))]
    /\ UNCHANGED <<runState, obj_info, objects, objectslock, slot, ncalls,
                   numObjects, dcalls, dby, refs, ub, hintvars>>

\* the same on a header another thread has freed since the lookup: the
\* increment lands in freed memory (or faults); obj->data is still ptr
retain_incr_freed(t) ==
    /\ At(t, "retain_incr")
    /\ heap[th[t].obj].st = "freed"
    /\ \E outcome \in {"ub", "crash"} : ub' = outcome
    /\ th' = [th EXCEPT ![t] = Finish(t, th[t].obj)]
    /\ UNCHANGED <<runState, obj_info, heap, objects, objectslock, slot, ncalls,
                   numObjects, dcalls, dby, refs, hintvars>>

\* ----------------------------------------------------------------- release
\* line 1895
release_find(t) ==
    /\ At(t, "release_find")
    /\ LET o == sccp_refcount_find_obj(th[t].ptr)
       IN th' = [th EXCEPT ![t] =
                    IF o = NULL THEN Finish(t, NULL)
                    ELSE [@ EXCEPT !.obj = o, !.pc = "release_decr"]]
    /\ UNCHANGED <<runState, obj_info, heap, objects, objectslock, slot, ncalls,
                   numObjects, dcalls, dby, refs, ub, hintvars>>

\* lines 1901-1903: ATOMIC_DECR(&obj->refcount, 1); only a result of zero
\* goes on to finalize
IsFinalizer_bug(newrefcountval) == newrefcountval <= 1

IsFinalizer(newrefcountval) == newrefcountval = 0

release_decr(t) ==
    /\ At(t, "release_decr")
    /\ heap[th[t].obj].st = "used"
    /\ heap' = [heap EXCEPT ![th[t].obj] = [@ EXCEPT !.refcount = @ - 1]]
    /\ LET old == heap[th[t].obj].refcount
       IN th' = [th EXCEPT ![t] =
                    IF IsFinalizer(old - 1)
                    THEN [@ EXCEPT !.refcountval = old, !.newrefcountval = old - 1,
                                   !.pc = "release_alive"]
                    ELSE Finish(t, NULL)]
    /\ UNCHANGED <<runState, obj_info, objects, objectslock, slot, ncalls,
                   numObjects, dcalls, dby, refs, ub, hintvars>>

\* the decrement on a freed header reads whatever the block now holds
release_decr_freed(t) ==
    /\ At(t, "release_decr")
    /\ heap[th[t].obj].st = "freed"
    /\ \E outcome \in {"ub", "crash"} : ub' = outcome
    /\ \E zero \in BOOLEAN :
          th' = [th EXCEPT ![t] =
                    IF zero THEN [@ EXCEPT !.pc = "release_alive"]
                    ELSE Finish(t, NULL)]
    /\ UNCHANGED <<runState, obj_info, heap, objects, objectslock, slot, ncalls,
                   numObjects, dcalls, dby, refs, hintvars>>

\* line 1904: ATOMIC_DECR(&obj->alive, SCCP_LIVE_MARKER)
release_alive(t) ==
    /\ At(t, "release_alive")
    /\ heap[th[t].obj].st = "used"
    /\ heap' = [heap EXCEPT ![th[t].obj] =
                   [@ EXCEPT !.alive = @ - SCCP_LIVE_MARKER]]
    /\ th' = [th EXCEPT ![t] = [@ EXCEPT !.pc = "remove_list"]]
    /\ UNCHANGED <<runState, obj_info, objects, objectslock, slot, ncalls,
                   numObjects, dcalls, dby, refs, ub, hintvars>>

release_alive_freed(t) ==
    /\ At(t, "release_alive")
    /\ heap[th[t].obj].st = "freed"
    /\ \E outcome \in {"ub", "crash"} : ub' = outcome
    /\ th' = [th EXCEPT ![t] = [@ EXCEPT !.pc = "remove_list"]]
    /\ UNCHANGED <<runState, obj_info, heap, objects, objectslock, slot, ncalls,
                   numObjects, dcalls, dby, refs, hintvars>>

\* ---------------------------------------------------------- remove_obj
\* the traversal of lines 1648-1654: the first header with this payload
\* address that is no longer alive
RemoveCandidate_bug(list, ptr) == NULL

RemoveCandidate(list, ptr) ==
    IF InList(list, ptr) /\ heap[ptr].alive # SCCP_LIVE_MARKER THEN ptr ELSE NULL

\* lines 1646-1659, under the bucket's write lock
remove_obj_list(t) ==
    /\ At(t, "remove_list")
    /\ LET h == SCCP_SIMPLE_HASH(th[t].ptr)
           o == IF objects[h].exists
                THEN RemoveCandidate(objects[h].list, th[t].ptr) ELSE NULL
           newlist == IF o = NULL THEN objects[h].list
                      ELSE RemoveFirst(objects[h].list, o)
           cleanup == objects[h].exists /\ Len(newlist) = 0
       IN /\ objects' = [objects EXCEPT ![h] = [@ EXCEPT !.list = newlist]]
          /\ th' = [th EXCEPT ![t] =
                       IF o # NULL
                       THEN [@ EXCEPT !.removed = o, !.cleanup_objects = cleanup,
                                      !.hash = h, !.pc = "remove_destroy"]
                       ELSE IF cleanup
                       THEN [@ EXCEPT !.removed = NULL, !.cleanup_objects = TRUE,
                                      !.hash = h, !.pc = "remove_cleanup"]
                       ELSE Finish(t, NULL)]
    /\ UNCHANGED <<runState, obj_info, heap, objectslock, slot, ncalls,
                   numObjects, dcalls, dby, refs, ub, hintvars>>

\* lines 1660-1674: after sched_yield, the destructor, memset and sccp_free
remove_obj_destroy(t) ==
    /\ At(t, "remove_destroy")
    /\ LET o == th[t].removed
       IN /\ IF heap[o].alive # SCCP_LIVE_MARKER
             THEN /\ heap' = [heap EXCEPT ![o] = FreedHeader]
                  /\ IF obj_info[heap[o].type] # NULL
                     THEN /\ dcalls' = [dcalls EXCEPT ![o] = @ + 1]
                          /\ dby' = [dby EXCEPT ![o] =
                                        [by |-> "release",
                                         old |-> th[t].refcountval]]
                     ELSE UNCHANGED <<dcalls, dby, hintvars>>
             ELSE UNCHANGED <<heap, dcalls, dby, hintvars>>
          /\ th' = [th EXCEPT ![t] =
                       IF th[t].cleanup_objects
                       THEN [@ EXCEPT !.pc = "remove_cleanup"]
                       ELSE Finish(t, NULL)]
    /\ UNCHANGED <<runState, obj_info, objects, objectslock, slot, ncalls,
                   numObjects, refs, ub, hintvars>>

\* line 1675, read without any lock
remove_obj_cleanup_check(t) ==
    /\ At(t, "remove_cleanup")
    /\ th' = [th EXCEPT ![t] =
                 IF runState = SCCP_REF_RUNNING /\ objects[th[t].hash].exists
                 THEN [@ EXCEPT !.pc = "remove_cleanup_locked"]
                 ELSE Finish(t, NULL)]
    /\ UNCHANGED <<runState, obj_info, heap, objects, objectslock, slot, ncalls,
                   numObjects, dcalls, dby, refs, ub, hintvars>>

\* lines 1676-1685, under objectslock and the bucket's write lock: the bucket
\* is freed only if its list is still empty
StillEmpty_bug(h) == TRUE

\* line 1678: the size of the list, read again under both locks
StillEmpty(h) == Len(objects[h].list) = 0

remove_obj_cleanup(t) ==
    /\ At(t, "remove_cleanup_locked")
    /\ objectslock = 0
    /\ objects[th[t].hash].exists
    /\ objects' = [objects EXCEPT ![th[t].hash] =
                      IF StillEmpty(th[t].hash) THEN NoBucket ELSE @]
    /\ th' = [th EXCEPT ![t] = Finish(t, NULL)]
    /\ UNCHANGED <<runState, obj_info, heap, objectslock, slot, ncalls,
                   numObjects, dcalls, dby, refs, ub, hintvars>>

\* the same when another thread's cleanup has freed the bucket since line
\* 1675: SCCP_RWLIST_WRLOCK(&(objects[hash])->refCountedObjects) on NULL
remove_obj_cleanup_nobucket(t) ==
    /\ At(t, "remove_cleanup_locked")
    /\ objectslock = 0
    /\ ~objects[th[t].hash].exists
    /\ ub' = "crash"
    /\ UNCHANGED <<runState, obj_info, heap, objects, objectslock, slot, th,
                   ncalls, numObjects, dcalls, dby, refs, hintvars>>

\* the else branch of line 1544 when the bucket seen at line 1529 has been
\* freed since: the lock is taken through a NULL or stale objects[hash]
object_alloc_insert_nobucket(t) ==
    /\ At(t, "alloc_insert")
    /\ ~objects[th[t].hash].exists
    /\ \E outcome \in {"ub", "crash"} : ub' = outcome
    /\ th' = [th EXCEPT ![t] = [@ EXCEPT !.pc = "alloc_alive"]]
    /\ UNCHANGED <<runState, obj_info, heap, objects, objectslock, slot, ncalls,
                   numObjects, dcalls, dby, refs, hintvars>>

\* ast_rwlock_wrlock(&objectslock) after pbx_rwlock_destroy(&objectslock):
\* the lock call returns (and the caller goes on without the lock) or faults
lock_destroyed(t) ==
    /\ Running
    /\ th[t].pc \in {"alloc_create", "remove_cleanup_locked", "destroy_lock"}
    /\ objectslock = -1
    /\ \E outcome \in {"ub", "crash"} : ub' = outcome
    /\ objectslock' = 0
    /\ UNCHANGED <<runState, obj_info, heap, objects, slot, th, ncalls,
                   numObjects, dcalls, dby, refs, hintvars>>

\* -------------------------------------------------------- updateIdentifier
\* line 1852: obj = sccp_refcount_find_obj(ptr); NULL is logged (line 1855)
update_find(t) ==
    /\ At(t, "update_find")
    /\ LET o == sccp_refcount_find_obj(th[t].ptr)
       IN th' = [th EXCEPT ![t] =
                    IF o = NULL THEN Returned(t, NULL)
                    ELSE [@ EXCEPT !.obj = o, !.pc = "update_copy"]]
    /\ UNCHANGED <<runState, obj_info, heap, objects, objectslock, slot, ncalls,
                   numObjects, dcalls, dby, refs, ub, hintvars>>

\* line 1853: sccp_copy_string(obj->identifier, identifier, ...)
CopyIdentifier_bug(hdr, id) == [hdr EXCEPT !.identifier = id, !.type = 1 - @]

CopyIdentifier(hdr, id) == [hdr EXCEPT !.identifier = id]

update_copy(t) ==
    /\ At(t, "update_copy")
    /\ heap[th[t].obj].st = "used"
    /\ heap' = [heap EXCEPT ![th[t].obj] = CopyIdentifier(@, th[t].identifier)]
    /\ th' = [th EXCEPT ![t] = Returned(t, NULL)]
    /\ UNCHANGED <<runState, obj_info, objects, objectslock, slot, ncalls,
                   numObjects, dcalls, dby, refs, ub, hintvars>>

\* the same on a header another thread has freed since the lookup: the copy
\* lands in freed memory (or faults)
update_copy_freed(t) ==
    /\ At(t, "update_copy")
    /\ heap[th[t].obj].st = "freed"
    /\ \E outcome \in {"ub", "crash"} : ub' = outcome
    /\ th' = [th EXCEPT ![t] = Returned(t, NULL)]
    /\ UNCHANGED <<runState, obj_info, heap, objects, objectslock, slot, ncalls,
                   numObjects, dcalls, dby, refs, hintvars>>

\* ----------------------------------------------------------------- replace
\* the storage of the by-value parameter newptr of thread t's call: a
\* location of its own, after the callers' reference variables
AddrOfNewptr(t) == NumSlots + t

\* line 1927: if (!replaceptr || (&newptr == replaceptr)) return;
NothingChanged(t) ==
    \/ th[t].replaceptr = NULL
    \/ AddrOfNewptr(t) = th[t].replaceptr

\* line 1932: const void *oldPtr = *replaceptr;
PreviousValue_bug(t) == th[t].newptr

PreviousValue(t) == slot[th[t].replaceptr]

\* lines 1927-1935 and 1941-1943: up to the first retain or release
replace_start(t) ==
    /\ At(t, "replace_start")
    /\ th' = [th EXCEPT ![t] =
                 IF NothingChanged(t) THEN Returned(t, NULL)
                 ELSE LET old == PreviousValue(t)
                      IN IF th[t].newptr # NULL
                         THEN [@ EXCEPT !.oldPtr = old, !.ptr = th[t].newptr,
                                        !.pc = "retain_find",
                                        !.cont = "replace_retained"]
                         ELSE IF old # NULL
                         THEN [@ EXCEPT !.oldPtr = old, !.ptr = old,
                                        !.pc = "release_find",
                                        !.cont = "replace_released"]
                         ELSE Returned(t, NULL)]
    /\ UNCHANGED <<runState, obj_info, heap, objects, objectslock, slot, ncalls,
                   numObjects, dcalls, dby, refs, ub, hintvars>>

\* line 1935: (tmpNewPtr = sccp_refcount_retain(newptr, ...)) != NULL
RetainSucceeded_bug(t) == TRUE

RetainSucceeded(t) == th[t].ret # NULL

\* lines 1935-1939: the store of the retained pointer, then the release of
\* the previous one
replace_retained(t) ==
    /\ At(t, "replace_retained")
    /\ IF RetainSucceeded(t)
       THEN /\ slot' = [slot EXCEPT ![th[t].replaceptr] = th[t].ret]
            /\ th' = [th EXCEPT ![t] =
                         IF th[t].oldPtr # NULL
                         THEN [@ EXCEPT !.ptr = th[t].oldPtr, !.obj = NULL,
                                        !.pc = "release_find", !.cont = "ret"]
                         ELSE Returned(t, NULL)]
       ELSE /\ th' = [th EXCEPT ![t] = Returned(t, NULL)]
            /\ UNCHANGED slot
    /\ UNCHANGED <<runState, obj_info, heap, objects, objectslock, ncalls,
                   numObjects, dcalls, dby, refs, ub, hintvars>>

\* line 1943: *replaceptr = sccp_refcount_release(oldPtr)
replace_released(t) ==
    /\ At(t, "replace_released")
    /\ slot' = [slot EXCEPT ![th[t].replaceptr] = th[t].ret]
    /\ th' = [th EXCEPT ![t] = Returned(t, NULL)]
    /\ UNCHANGED <<runState, obj_info, heap, objects, objectslock, ncalls,
                   numObjects, dcalls, dby, refs, ub, hintvars>>

\* ---------------------------------------------------------------- shutdown
\* lines 1436-1440
destroy_start(t) ==
    /\ At(t, "destroy_start")
    /\ numObjects' = 0
    /\ runState' = SCCP_REF_STOPPED
    /\ th' = [th EXCEPT ![t] = [@ EXCEPT !.pc = "destroy_lock"]]
    /\ UNCHANGED <<obj_info, heap, objects, objectslock, slot, ncalls, dcalls,
                   dby, refs, ub, hintvars>>

\* line 1443
destroy_lock(t) ==
    /\ At(t, "destroy_lock")
    /\ objectslock = 0
    /\ objectslock' = t
    /\ th' = [th EXCEPT ![t] = [@ EXCEPT !.type = 0, !.hash = 0,
                                         !.pc = "destroy_bucket"]]
    /\ UNCHANGED <<runState, obj_info, heap, objects, slot, ncalls, numObjects,
                   dcalls, dby, refs, ub, hintvars>>

\* one pass of the inner loop of lines 1445-1469 (one bucket, under its write
\* lock), or the end of the inner loop: it ends at the first hash whose
\* objects[hash] is NULL
InnerLoopGoesOn(hash) == hash < SCCP_HASH_PRIME /\ objects[hash].exists

destroy_bucket(t) ==
    /\ At(t, "destroy_bucket")
    /\ LET ty == th[t].type
           h == th[t].hash
       IN IF InnerLoopGoesOn(h)
          THEN LET victims == OfType(objects[h].list, ty)
               IN /\ heap' = [a \in Addr |->
                                 IF a \in victims THEN FreedHeader ELSE heap[a]]
                  /\ dcalls' = [a \in Addr |->
                                   IF a \in victims /\ obj_info[ty] # NULL
                                   THEN dcalls[a] + 1 ELSE dcalls[a]]
                  /\ dby' = [a \in Addr |->
                                IF a \in victims /\ obj_info[ty] # NULL
                                THEN [by |-> "destroy", old |-> heap[a].refcount]
                                ELSE dby[a]]
                  /\ numObjects' = numObjects + Cardinality(victims)
                  /\ objects' = [objects EXCEPT ![h] = NoBucket]
                  /\ th' = [th EXCEPT ![t] = [@ EXCEPT !.hash = h + 1]]
          ELSE /\ th' = [th EXCEPT ![t] =
                            IF ty + 1 < NumTypes
                            THEN [@ EXCEPT !.type = ty + 1, !.hash = 0]
                            ELSE [@ EXCEPT !.pc = "destroy_unlock"]]
               /\ UNCHANGED <<heap, dcalls, dby, numObjects, objects, hintvars>>
    /\ UNCHANGED <<runState, obj_info, objectslock, slot, ncalls, refs, ub, hintvars>>

\* lines 1471-1483
destroy_unlock(t) ==
    /\ At(t, "destroy_unlock")
    /\ objectslock' = -1
    /\ runState' = SCCP_REF_DESTROYED
    /\ th' = [th EXCEPT ![t] = Returned(t, NULL)]
    /\ UNCHANGED <<obj_info, heap, objects, slot, ncalls, numObjects, dcalls,
                   dby, refs, ub, hintvars>>

\* line 1486
sccp_refcount_isRunning == runState

\* ------------------------------------------------------------- the callers
\* A caller starts one call at a time; a call that has returned leaves the
\* thread at "ret" with its result until the thread's next call.
\* The references thread t owns, counting the result of a call that has just
\* returned: an allocation or a retain that returned a pointer leaves the
\* caller with one more reference to it.
RefsReturned(t) ==
    IF th[t].pc = "ret" /\ th[t].op \in {"alloc", "retain"} /\ th[t].ret # NULL
    THEN [refs EXCEPT ![t][th[t].ret] = @ + 1] ELSE refs

Owns(t, a) == RefsReturned(t)[t][a]

\* Threads are interchangeable: thread t + 1 makes its first call only once
\* thread t has made one.
CanCall(t) ==
    /\ Running
    /\ th[t].pc \in {"idle", "ret"}
    /\ IF t = 1 THEN TRUE ELSE th[t - 1].pc # "idle"

\* the runs are bounded by the number of calls made
Budget(n) == ncalls < n

\* the refcount of a live, registered object; 0 for anything else
LiveRefcount(a) ==
    IF a \in Addr /\ sccp_refcount_find_obj(a) = a THEN heap[a].refcount ELSE 0

\* a pointer some sccp_refcount_object_alloc call has returned
Published(a) ==
    /\ heap[a].st # "free"
    /\ \A t \in Threads :
          ~(th[t].op = "alloc" /\ th[t].pc # "ret" /\ th[t].obj = a)

Call_init(t) ==
    /\ CanCall(t)
    /\ th' = [th EXCEPT ![t] = [IdleThread EXCEPT !.pc = "init", !.op = "init"]]
    /\ ncalls' = ncalls + 1
    /\ UNCHANGED <<runState, obj_info, heap, objects, objectslock, slot,
                   numObjects, dcalls, dby, ub, hintvars>>
    /\ refs' = RefsReturned(t)

Call_destroy(t) ==
    /\ CanCall(t)
    /\ th' = [th EXCEPT ![t] = [IdleThread EXCEPT !.pc = "destroy_start",
                                                  !.op = "destroy"]]
    /\ ncalls' = ncalls + 1
    /\ UNCHANGED <<runState, obj_info, heap, objects, objectslock, slot,
                   numObjects, dcalls, dby, ub, hintvars>>
    /\ refs' = RefsReturned(t)

Call_alloc(t, ty, d) ==
    /\ CanCall(t)
    /\ th' = [th EXCEPT ![t] = [IdleThread EXCEPT !.pc = "alloc_check",
                                   !.op = "alloc", !.type = ty, !.destructor = d,
                                   !.after = (runState = SCCP_REF_DESTROYED)]]
    /\ ncalls' = ncalls + 1
    /\ UNCHANGED <<runState, obj_info, heap, objects, objectslock, slot,
                   numObjects, dcalls, dby, ub, hintvars>>
    /\ refs' = RefsReturned(t)

Call_retain(t, a) ==
    /\ CanCall(t)
    /\ th' = [th EXCEPT ![t] = [IdleThread EXCEPT !.pc = "retain_find",
                                   !.op = "retain", !.ptr = a,
                                   !.after = (a \in Addr /\ dcalls[a] > 0),
                                   !.stopped = (runState # SCCP_REF_RUNNING)]]
    /\ ncalls' = ncalls + 1
    /\ UNCHANGED <<runState, obj_info, heap, objects, objectslock, slot,
                   numObjects, dcalls, dby, ub, hintvars>>
    /\ refs' = RefsReturned(t)

\* the caller gives up one of its references (if it owns one) with the call
Call_release(t, a) ==
    /\ CanCall(t)
    /\ th' = [th EXCEPT ![t] = [IdleThread EXCEPT !.pc = "release_find",
                                   !.op = "release", !.ptr = a,
                                   !.after = (a \in Addr /\ dcalls[a] > 0),
                                   !.stopped = (runState # SCCP_REF_RUNNING)]]
    /\ refs' = IF a \in Addr /\ Owns(t, a) > 0
               THEN [RefsReturned(t) EXCEPT ![t][a] = @ - 1]
               ELSE RefsReturned(t)
    /\ ncalls' = ncalls + 1
    /\ UNCHANGED <<runState, obj_info, heap, objects, objectslock, slot,
                   numObjects, dcalls, dby, ub, hintvars>>

\* held is the live object the pointer addresses at the call, if any
Call_updateIdentifier(t, p, id) ==
    /\ CanCall(t)
    /\ th' = [th EXCEPT ![t] = [IdleThread EXCEPT !.pc = "update_find",
                                   !.op = "updateIdentifier", !.ptr = p,
                                   !.identifier = id,
                                   !.held = sccp_refcount_find_obj(p),
                                   !.rc0 = LiveRefcount(p)]]
    /\ ncalls' = ncalls + 1
    /\ UNCHANGED <<runState, obj_info, heap, objects, objectslock, slot,
                   numObjects, dcalls, dby, ub, hintvars>>
    /\ refs' = RefsReturned(t)

Call_replace(t, s, n) ==
    /\ CanCall(t)
    /\ th' = [th EXCEPT ![t] = [IdleThread EXCEPT !.pc = "replace_start",
                                   !.op = "replace", !.replaceptr = s,
                                   !.newptr = n,
                                   !.held = IF s = NULL THEN NULL ELSE slot[s],
                                   !.rc0 = LiveRefcount(n),
                                   !.rc1 = IF s = NULL THEN 0
                                           ELSE LiveRefcount(slot[s])]]
    /\ ncalls' = ncalls + 1
    /\ UNCHANGED <<runState, obj_info, heap, objects, objectslock, slot,
                   numObjects, dcalls, dby, ub, hintvars>>
    /\ refs' = RefsReturned(t)

\* ------------------------------------------------------- the state at load
\* nothing allocated, sccp_refcount_init not yet called
InitStopped ==
    /\ runState = SCCP_REF_STOPPED
    /\ obj_info = [ty \in Types |-> NULL]
    /\ heap = [a \in Addr |-> FreshHeader]
    /\ objects = [h \in Hashes |-> NoBucket]
    /\ objectslock = -1
    /\ slot = [s \in Slots |-> NULL]
    /\ th = [t \in Threads |-> IdleThread]
    /\ ncalls = 0
    /\ numObjects = 0
    /\ dcalls = [a \in Addr |-> 0]
    /\ dby = [a \in Addr |-> [by |-> "none", old |-> 0]]
    /\ refs = [t \in Threads |-> [a \in Addr |-> 0]]
    /\ ub = "none"
    /\ NoHints

\* the state after sccp_refcount_init()
Init ==
    /\ runState = SCCP_REF_RUNNING
    /\ obj_info = [ty \in Types |-> NULL]
    /\ heap = [a \in Addr |-> FreshHeader]
    /\ objects = [h \in Hashes |-> NoBucket]
    /\ objectslock = 0
    /\ slot = [s \in Slots |-> NULL]
    /\ th = [t \in Threads |-> IdleThread]
    /\ ncalls = 0
    /\ numObjects = 0
    /\ dcalls = [a \in Addr |-> 0]
    /\ dby = [a \in Addr |-> [by |-> "none", old |-> 0]]
    /\ refs = [t \in Threads |-> [a \in Addr |-> 0]]
    /\ ub = "none"
    /\ NoHints

\* ------------------------------------------- Spec: the engine while Running
\* Threads allocate, retain and release concurrently; a thread releases only
\* a reference it owns, and may retain any pointer an allocation has
\* returned, whoever owns it.
Next ==
    \E t \in Threads :
        \/ Budget(MaxCalls) /\ Call_alloc(t, 0, 1)
        \/ \E a \in Addr : Budget(MaxCalls) /\ Published(a) /\ Call_retain(t, a)
        \/ \E a \in Addr : Budget(MaxCalls) /\ Owns(t, a) > 0 /\ Call_release(t, a)
        \/ object_alloc_check(t)
        \/ object_alloc_register(t)
        \/ object_alloc_create(t)
        \/ object_alloc_insert(t)
        \/ object_alloc_insert_nobucket(t)
        \/ object_alloc_alive(t)
        \/ retain_find(t)
        \/ retain_incr(t)
        \/ retain_incr_freed(t)
        \/ release_find(t)
        \/ release_decr(t)
        \/ release_decr_freed(t)
        \/ release_alive(t)
        \/ release_alive_freed(t)
        \/ remove_obj_list(t)
        \/ remove_obj_destroy(t)
        \/ remove_obj_cleanup_check(t)
        \/ remove_obj_cleanup(t)
        \/ remove_obj_cleanup_nobucket(t)

Spec == Init /\ [][Next]_vars

\* ------------------------------------- SpecStorm: the multithreaded test
\* sccp_refcount_tests (lines 2049-2068): the main thread has allocated the
\* objects, in address order, and keeps their first reference; every test
\* thread loops over retain(obj), retain(obj), release(obj1), release(obj)
\* on an object picked at random (refcount_test_thread, lines 1989-2014).
MaxStormCalls == 8

RECURSIVE StormList(_, _)
\* the bucket h after the objects 1..n were inserted at its head in turn
StormList(h, n) ==
    IF n = 0 THEN <<>>
    ELSE IF SCCP_SIMPLE_HASH(n) = h THEN <<n>> \o StormList(h, n - 1)
    ELSE StormList(h, n - 1)

InitStorm ==
    /\ runState = SCCP_REF_RUNNING
    /\ obj_info = [ty \in Types |-> IF ty = 0 THEN 1 ELSE NULL]
    /\ heap = [a \in Addr |-> [st |-> "used", refcount |-> 1,
                               alive |-> SCCP_LIVE_MARKER, type |-> 0,
                               identifier |-> NewIdentifier]]
    /\ objects = [h \in Hashes |->
                     IF StormList(h, NumAddr) = <<>> THEN NoBucket
                     ELSE [exists |-> TRUE, list |-> StormList(h, NumAddr)]]
    /\ objectslock = 0
    /\ slot = [s \in Slots |-> NULL]
    /\ th = [t \in Threads |-> IdleThread]
    /\ ncalls = 0
    /\ numObjects = 0
    /\ dcalls = [a \in Addr |-> 0]
    /\ dby = [a \in Addr |-> [by |-> "none", old |-> 0]]
    /\ refs = [t \in Threads |-> [a \in Addr |-> 0]]
    /\ ub = "none"
    /\ NoHints

OwnsNothing(t) == \A a \in Addr : Owns(t, a) = 0

\* line 1992 (a new pass of the loop) and line 1993
Storm_retain(t, a) ==
    /\ Budget(MaxStormCalls)
    /\ \/ OwnsNothing(t) /\ th[t].op \in {"none", "release"}
       \/ th[t].op = "retain" /\ th[t].ret = a /\ Owns(t, a) = 1
    /\ Call_retain(t, a)

\* lines 1994 and 2004
Storm_release(t, a) ==
    /\ Budget(MaxStormCalls)
    /\ \/ th[t].op = "retain" /\ th[t].ret = a /\ Owns(t, a) = 2
       \/ th[t].op = "release" /\ Owns(t, a) = 1
    /\ Call_release(t, a)

NextStorm ==
    \E t \in Threads :
        \/ \E a \in Addr : Storm_retain(t, a)
        \/ \E a \in Addr : Storm_release(t, a)
        \/ retain_find(t)
        \/ retain_incr(t)
        \/ release_find(t)
        \/ release_decr(t)

SpecStorm == InitStorm /\ [][NextStorm]_vars

\* ------------------------- SpecBalanced: retains then releases, one caller
\* One thread allocates (one object after another), then retains the object
\* it allocated last any number of times, then releases what it retained.
MaxBalancedCalls == 8

Balanced_alloc ==
    /\ Budget(MaxBalancedCalls)
    /\ th[1].op \in {"none", "alloc"}
    /\ Call_alloc(1, 0, 1)

Balanced_retain(a) ==
    /\ Budget(MaxBalancedCalls)
    /\ \/ th[1].op = "alloc" /\ th[1].ret = a
       \/ th[1].op = "retain" /\ th[1].ptr = a
    /\ Call_retain(1, a)

Balanced_release(a) ==
    /\ Budget(MaxBalancedCalls)
    /\ th[1].op \in {"retain", "release"} /\ th[1].ptr = a
    /\ Owns(1, a) > 1
    /\ Call_release(1, a)

NextBalanced ==
    \/ Balanced_alloc
    \/ \E a \in Addr : Balanced_retain(a)
    \/ \E a \in Addr : Balanced_release(a)
    \/ object_alloc_check(1)
    \/ object_alloc_register(1)
    \/ object_alloc_create(1)
    \/ object_alloc_insert(1)
    \/ object_alloc_alive(1)
    \/ retain_find(1)
    \/ retain_incr(1)
    \/ release_find(1)
    \/ release_decr(1)

SpecBalanced == Init /\ [][NextBalanced]_vars

\* ------------------------------- SpecReplace: one caller and its variables
\* One thread allocates, releases references it owns, and assigns its
\* reference variables with sccp_refcount_replace: any variable (or no
\* variable), any pointer an allocation has returned (or NULL).
MaxReplaceCalls == 5

NextReplace ==
    \/ Budget(MaxReplaceCalls) /\ Call_alloc(1, 0, 1)
    \/ \E a \in Addr : Budget(MaxReplaceCalls) /\ Owns(1, a) > 0 /\ Call_release(1, a)
    \/ \E s \in Slots \cup {NULL} : \E n \in Addr \cup {NULL} :
          /\ Budget(MaxReplaceCalls)
          /\ n # NULL => Published(n)
          /\ Call_replace(1, s, n)
    \/ object_alloc_check(1)
    \/ object_alloc_register(1)
    \/ object_alloc_create(1)
    \/ object_alloc_insert(1)
    \/ object_alloc_alive(1)
    \/ retain_find(1)
    \/ retain_incr(1)
    \/ release_find(1)
    \/ release_decr(1)
    \/ release_alive(1)
    \/ remove_obj_list(1)
    \/ remove_obj_destroy(1)
    \/ remove_obj_cleanup_check(1)
    \/ remove_obj_cleanup(1)
    \/ replace_start(1)
    \/ replace_retained(1)
    \/ replace_released(1)

SpecReplace == Init /\ [][NextReplace]_vars

\* ------------------------------------ SpecLife: from load to after unload
\* sccp_refcount_init is called once, sccp_refcount_destroy once while
\* Running; allocations (of one type) are made at any time, before, during
\* and after.  No reference is given back in these runs.
MaxLifeCalls == 5

Life_init(t) ==
    /\ Budget(MaxLifeCalls)
    /\ runState = SCCP_REF_STOPPED /\ objectslock = -1
    /\ \A u \in Threads : th[u].pc # "init"
    /\ Call_init(t)

Life_destroy(t) ==
    /\ Budget(MaxLifeCalls)
    /\ runState = SCCP_REF_RUNNING
    /\ \A u \in Threads : th[u].pc # "destroy_start"
    /\ Call_destroy(t)

NextLife ==
    \E t \in Threads :
        \/ Life_init(t)
        \/ Life_destroy(t)
        \/ Budget(MaxLifeCalls) /\ Call_alloc(t, 0, 1)
        \/ sccp_refcount_init(t)
        \/ destroy_start(t)
        \/ destroy_lock(t)
        \/ destroy_bucket(t)
        \/ destroy_unlock(t)
        \/ lock_destroyed(t)
        \/ object_alloc_check(t)
        \/ object_alloc_register(t)
        \/ object_alloc_create(t)
        \/ object_alloc_insert(t)
        \/ object_alloc_insert_nobucket(t)
        \/ object_alloc_alive(t)

SpecLife == InitStopped /\ [][NextLife]_vars

\* ------------------- SpecStopping: retains and releases around an unload
\* Thread 1 has allocated the objects, in address order, and owns the first
\* reference of each.  sccp_refcount_destroy is called once, by any thread;
\* threads retain any object and release references they own, before, during
\* and after it.
MaxStopCalls == 3

InitHeld ==
    /\ runState = SCCP_REF_RUNNING
    /\ obj_info = [ty \in Types |-> IF ty = 0 THEN 1 ELSE NULL]
    /\ heap = [a \in Addr |-> [st |-> "used", refcount |-> 1,
                               alive |-> SCCP_LIVE_MARKER, type |-> 0,
                               identifier |-> NewIdentifier]]
    /\ objects = [h \in Hashes |->
                     IF StormList(h, NumAddr) = <<>> THEN NoBucket
                     ELSE [exists |-> TRUE, list |-> StormList(h, NumAddr)]]
    /\ objectslock = 0
    /\ slot = [s \in Slots |-> NULL]
    /\ th = [t \in Threads |-> IdleThread]
    /\ ncalls = 0
    /\ numObjects = 0
    /\ dcalls = [a \in Addr |-> 0]
    /\ dby = [a \in Addr |-> [by |-> "none", old |-> 0]]
    /\ refs = [t \in Threads |-> [a \in Addr |-> IF t = 1 THEN 1 ELSE 0]]
    /\ ub = "none"
    /\ NoHints

Stop_destroy(t) ==
    /\ Budget(MaxStopCalls)
    /\ runState = SCCP_REF_RUNNING
    /\ \A u \in Threads : th[u].pc # "destroy_start"
    /\ Call_destroy(t)

NextStopping ==
    \E t \in Threads :
        \/ Stop_destroy(t)
        \/ \E a \in Addr : Budget(MaxStopCalls) /\ Call_retain(t, a)
        \/ \E a \in Addr : Budget(MaxStopCalls) /\ Owns(t, a) > 0 /\ Call_release(t, a)
        \/ destroy_start(t)
        \/ destroy_lock(t)
        \/ destroy_bucket(t)
        \/ destroy_unlock(t)
        \/ lock_destroyed(t)
        \/ retain_find(t)
        \/ retain_incr(t)
        \/ retain_incr_freed(t)
        \/ release_find(t)
        \/ release_decr(t)
        \/ release_decr_freed(t)
        \/ release_alive(t)
        \/ release_alive_freed(t)
        \/ remove_obj_list(t)
        \/ remove_obj_destroy(t)
        \/ remove_obj_cleanup_check(t)
        \/ remove_obj_cleanup(t)
        \/ remove_obj_cleanup_nobucket(t)

SpecStopping == InitHeld /\ [][NextStopping]_vars

\* ----------------------------- SpecDrain: an unload with objects left over
\* One thread allocates objects of any type, retains some of them, and then
\* calls sccp_refcount_destroy; nothing else runs.
MaxDrainCalls == 4

Drain_alloc(ty) ==
    /\ Budget(MaxDrainCalls)
    /\ th[1].op # "destroy"
    /\ Call_alloc(1, ty, 1)

Drain_retain(a) ==
    /\ Budget(MaxDrainCalls)
    /\ th[1].op # "destroy"
    /\ Owns(1, a) > 0
    /\ Call_retain(1, a)

Drain_destroy ==
    /\ Budget(MaxDrainCalls)
    /\ th[1].op # "destroy"
    /\ Call_destroy(1)

NextDrain ==
    \/ \E ty \in Types : Drain_alloc(ty)
    \/ \E a \in Addr : Drain_retain(a)
    \/ Drain_destroy
    \/ object_alloc_check(1)
    \/ object_alloc_register(1)
    \/ object_alloc_create(1)
    \/ object_alloc_insert(1)
    \/ object_alloc_alive(1)
    \/ retain_find(1)
    \/ retain_incr(1)
    \/ destroy_start(1)
    \/ destroy_lock(1)
    \/ destroy_bucket(1)
    \/ destroy_unlock(1)

SpecDrain == Init /\ [][NextDrain]_vars

\* ---------------------- SpecInvalid: calls on any address, valid or not
\* From the state of InitHeld, threads retain and release any address at
\* all: NULL, an address the engine never handed out, an object that is
\* alive, being destroyed or already destroyed, owned by the caller or not.
\* The objects addressed are the first of every bucket's chain; the others
\* stay in their buckets untouched.
MaxInvalidCalls == 3

\* an address that is not the payload of any header
Unmanaged == NumAddr + 1

Pointers == {a \in Addr : a <= SCCP_HASH_PRIME} \cup {NULL, Unmanaged}

NextInvalid ==
    \E t \in Threads :
        \/ \E p \in Pointers : Budget(MaxInvalidCalls) /\ Call_retain(t, p)
        \/ \E p \in Pointers : Budget(MaxInvalidCalls) /\ Call_release(t, p)
        \/ retain_find(t)
        \/ retain_incr(t)
        \/ retain_incr_freed(t)
        \/ release_find(t)
        \/ release_decr(t)
        \/ release_decr_freed(t)
        \/ release_alive(t)
        \/ release_alive_freed(t)
        \/ remove_obj_list(t)
        \/ remove_obj_destroy(t)
        \/ remove_obj_cleanup_check(t)
        \/ remove_obj_cleanup(t)
        \/ remove_obj_cleanup_nobucket(t)

SpecInvalid == InitHeld /\ [][NextInvalid]_vars

\* ------------------------ SpecCollide: objects sharing a bucket, Running
\* From the state of InitHeld (several objects chained in one bucket, thread
\* 1 owning the first reference of each), threads retain any object and
\* release references they own.
MaxCollideCalls == 3

NextCollide ==
    \E t \in Threads :
        \/ \E a \in Addr : Budget(MaxCollideCalls) /\ Call_retain(t, a)
        \/ \E a \in Addr :
              Budget(MaxCollideCalls) /\ Owns(t, a) > 0 /\ Call_release(t, a)
        \/ retain_find(t)
        \/ retain_incr(t)
        \/ retain_incr_freed(t)
        \/ release_find(t)
        \/ release_decr(t)
        \/ release_decr_freed(t)
        \/ release_alive(t)
        \/ release_alive_freed(t)
        \/ remove_obj_list(t)
        \/ remove_obj_destroy(t)
        \/ remove_obj_cleanup_check(t)
        \/ remove_obj_cleanup(t)
        \/ remove_obj_cleanup_nobucket(t)

SpecCollide == InitHeld /\ [][NextCollide]_vars

\* --------------------- SpecRegister: allocations and their destructors
\* Threads allocate objects of any type, each call passing any destructor or
\* none.
MaxRegisterCalls == 3

NextRegister ==
    \E t \in Threads :
        \/ \E ty \in Types : \E d \in Dtors \cup {NULL} :
              Budget(MaxRegisterCalls) /\ Call_alloc(t, ty, d)
        \/ object_alloc_check(t)
        \/ object_alloc_register(t)
        \/ object_alloc_create(t)
        \/ object_alloc_insert(t)
        \/ object_alloc_alive(t)

SpecRegister == Init /\ [][NextRegister]_vars

\* ------------------ SpecMix: allocations, retains and releases, Running
\* The runs of Spec from its state after thread 1's first allocation has
\* returned (the block at address 1, first reference owned by thread 1):
\* threads allocate, retain any pointer an allocation has returned and
\* release references they own.
MaxMixCalls == 3

InitOne ==
    /\ runState = SCCP_REF_RUNNING
    /\ obj_info = [ty \in Types |-> IF ty = 0 THEN 1 ELSE NULL]
    /\ heap = [a \in Addr |->
                  IF a = 1 THEN [st |-> "used", refcount |-> 1,
                                 alive |-> SCCP_LIVE_MARKER, type |-> 0,
                                 identifier |-> NewIdentifier]
                  ELSE FreshHeader]
    /\ objects = [h \in Hashes |->
                     IF h = SCCP_SIMPLE_HASH(1) THEN [exists |-> TRUE, list |-> <<1>>]
                     ELSE NoBucket]
    /\ objectslock = 0
    /\ slot = [s \in Slots |-> NULL]
    /\ th = [t \in Threads |-> IdleThread]
    /\ ncalls = 0
    /\ numObjects = 0
    /\ dcalls = [a \in Addr |-> 0]
    /\ dby = [a \in Addr |-> [by |-> "none", old |-> 0]]
    /\ refs = [t \in Threads |-> [a \in Addr |-> IF t = 1 /\ a = 1 THEN 1 ELSE 0]]
    /\ ub = "none"
    /\ NoHints

NextMix ==
    \E t \in Threads :
        \/ Budget(MaxMixCalls) /\ Call_alloc(t, 0, 1)
        \/ \E a \in Addr : Budget(MaxMixCalls) /\ Published(a) /\ Call_retain(t, a)
        \/ \E a \in Addr : Budget(MaxMixCalls) /\ Owns(t, a) > 0 /\ Call_release(t, a)
        \/ object_alloc_check(t)
        \/ object_alloc_register(t)
        \/ object_alloc_create(t)
        \/ object_alloc_insert(t)
        \/ object_alloc_insert_nobucket(t)
        \/ object_alloc_alive(t)
        \/ retain_find(t)
        \/ retain_incr(t)
        \/ retain_incr_freed(t)
        \/ release_find(t)
        \/ release_decr(t)
        \/ release_decr_freed(t)
        \/ release_alive(t)
        \/ release_alive_freed(t)
        \/ remove_obj_list(t)
        \/ remove_obj_destroy(t)
        \/ remove_obj_cleanup_check(t)
        \/ remove_obj_cleanup(t)
        \/ remove_obj_cleanup_nobucket(t)

SpecMix == InitOne /\ [][NextMix]_vars

\* ------------------------------------------------ the locks, one by one
\* The actions above take a critical section as one step.  Here the locks a
\* thread holds are part of its state (th[t].locks): objectslock for writing
\* or reading, and the rwlock of a bucket's list for writing or reading.  A
\* thread takes the locks its next step runs under, in the order of the
\* code, one per step, and gives back those the step after does not run
\* under before it goes on.
Lock(k, h, m) == [k |-> k, h |-> h, m |-> m]
DirW == Lock("dir", 0, "w")
DirR == Lock("dir", 0, "r")
BW(h) == Lock("bucket", h, "w")
BR(h) == Lock("bucket", h, "r")

Range(seq) == {seq[i] : i \in 1..Len(seq)}

\* the destructor a type of objects registers when its objects keep a
\* reference to another object and release it when they are destroyed
ReleasingDtor == 2

\* the object every such object keeps its reference to
Partner(a) == NumAddr

\* the locks of the frame below a call made from a destructor: the unload
\* calls the destructor at line 1452, between lines 1446 and 1464
Outer(t) ==
    IF th[t].cont = "drain_dtor_done" THEN <<DirW, BW(th[t].dhash)>> ELSE <<>>

\* the locks the step at thread t's program counter runs under, in the order
\* the code takes them
Inner(t) ==
    LET pc == th[t].pc
        hp == SCCP_SIMPLE_HASH(th[t].ptr)
    IN CASE pc \in {"retain_find", "release_find"} ->
               \* lines 1613-1614
               IF th[t].ptr # NULL /\ objects[hp].exists THEN <<BR(hp)>> ELSE <<>>
         [] pc = "remove_list" ->
               \* lines 1646-1647
               IF objects[hp].exists THEN <<BW(hp)>> ELSE <<>>
         [] pc = "remove_cleanup_locked" ->
               \* lines 1676-1677
               IF objects[th[t].hash].exists
               THEN <<DirW, BW(th[t].hash)>> ELSE <<DirW>>
         [] pc = "alloc_create" -> <<DirW>>                  \* line 1531
         [] pc = "alloc_insert" ->
               \* line 1546
               IF objects[th[t].hash].exists THEN <<BW(th[t].hash)>> ELSE <<>>
         [] pc = "destroy_lock" -> <<DirW>>                  \* line 1443
         [] pc \in {"drain_bucket", "drain_bucket_free", "destroy_unlock"} ->
               <<DirW>>
         [] pc \in {"drain_traverse", "drain_dtor_done"} ->
               <<DirW, BW(th[t].dhash)>>                     \* line 1446
         [] pc = "show_bucket" -> <<DirR>>                   \* line 1708
         [] pc = "show_entries" -> <<DirR, BR(th[t].dhash)>> \* line 1714
         [] OTHER -> <<>>

Needed(t) == Outer(t) \o Inner(t)

Holds(t) == th[t].locks = Range(Needed(t))

\* the next lock thread t asks for
Wanted(t) ==
    LET missing == {i \in 1..Len(Needed(t)) : Needed(t)[i] \notin th[t].locks}
    IN Needed(t)[CHOOSE i \in missing : \A j \in missing : i <= j]

Waiting(t) ==
    /\ Running
    /\ th[t].pc \notin {"idle", "ret", "deadlocked"}
    /\ th[t].locks \subseteq Range(Needed(t))
    /\ th[t].locks # Range(Needed(t))

SameLock(l, m) == l.k = m.k /\ l.h = m.h

\* pthread_rwlock_rdlock / _wrlock
lock_acquire(t) ==
    /\ Waiting(t)
    /\ LET l == Wanted(t)
       IN /\ \A m \in th[t].locks : ~SameLock(l, m)
          /\ l.k = "dir" => objectslock = 0
          /\ \A u \in Threads \ {t} : \A m \in th[u].locks :
                SameLock(l, m) => (l.m = "r" /\ m.m = "r")
          /\ th' = [th EXCEPT ![t] = [@ EXCEPT !.locks = @ \cup {l}]]
    /\ UNCHANGED <<runState, obj_info, heap, objects, objectslock, slot, ncalls,
                   numObjects, dcalls, dby, refs, ub, hintvars>>

\* the same on a lock the calling thread holds itself: the call never
\* returns, or it fails with EDEADLK and the caller, which does not look at
\* the result, goes on as if it had the lock
lock_self(t) ==
    /\ Waiting(t)
    /\ LET l == Wanted(t)
       IN /\ \E m \in th[t].locks : SameLock(l, m)
          /\ \/ /\ th' = [th EXCEPT ![t] = [@ EXCEPT !.pc = "deadlocked"]]
                /\ UNCHANGED ub
             \/ /\ th' = [th EXCEPT ![t] = [@ EXCEPT !.locks = @ \cup {l}]]
                /\ ub' = "ub"
    /\ UNCHANGED <<runState, obj_info, heap, objects, objectslock, slot, ncalls,
                   numObjects, dcalls, dby, refs, hintvars>>

\* pthread_rwlock_unlock
lock_release(t) ==
    /\ Running
    /\ \E l \in th[t].locks \ Range(Needed(t)) :
          th' = [th EXCEPT ![t] = [@ EXCEPT !.locks = @ \ {l}]]
    /\ UNCHANGED <<runState, obj_info, heap, objects, objectslock, slot, ncalls,
                   numObjects, dcalls, dby, refs, ub, hintvars>>

\* line 1444, objectslock held: the loops start
drain_enter(t) ==
    /\ At(t, "destroy_lock")
    /\ Holds(t)
    /\ th' = [th EXCEPT ![t] = [@ EXCEPT !.type = 0, !.dhash = 0,
                                         !.pc = "drain_bucket"]]
    /\ UNCHANGED <<runState, obj_info, heap, objects, objectslock, slot, ncalls,
                   numObjects, dcalls, dby, refs, ub, hintvars>>

\* line 1445: the test of the inner loop, and line 1444 when it ends
drain_bucket(t) ==
    /\ At(t, "drain_bucket")
    /\ Holds(t)
    /\ th' = [th EXCEPT ![t] =
                 IF InnerLoopGoesOn(th[t].dhash)
                 THEN [@ EXCEPT !.pc = "drain_traverse"]
                 ELSE IF th[t].type + 1 < NumTypes
                 THEN [@ EXCEPT !.type = @ + 1, !.dhash = 0]
                 ELSE [@ EXCEPT !.pc = "destroy_unlock"]]
    /\ UNCHANGED <<runState, obj_info, heap, objects, objectslock, slot, ncalls,
                   numObjects, dcalls, dby, refs, ub, hintvars>>

\* lines 1447-1454, under the bucket's write lock: the next header of the
\* type is unlinked and its destructor called; a destructor that releases
\* the object's partner is a call of sccp_refcount_release from here
drain_traverse(t) ==
    /\ At(t, "drain_traverse")
    /\ Holds(t)
    /\ LET h == th[t].dhash
           ty == th[t].type
           list == objects[h].list
           idx == {i \in 1..Len(list) : heap[list[i]].type = ty}
       IN IF idx = {}
          THEN /\ th' = [th EXCEPT ![t] = [@ EXCEPT !.pc = "drain_bucket_free"]]
               /\ UNCHANGED <<objects, dcalls, dby, hintvars>>
          ELSE LET a == list[CHOOSE i \in idx : \A j \in idx : i <= j]
               IN /\ objects' = [objects EXCEPT ![h] =
                                    [@ EXCEPT !.list = RemoveFirst(list, a)]]
                  /\ IF obj_info[ty] # NULL
                     THEN /\ dcalls' = [dcalls EXCEPT ![a] = @ + 1]
                          /\ dby' = [dby EXCEPT ![a] =
                                        [by |-> "destroy",
                                         old |-> heap[a].refcount]]
                     ELSE UNCHANGED <<dcalls, dby, hintvars>>
                  /\ th' = [th EXCEPT ![t] =
                               IF obj_info[ty] = ReleasingDtor
                               THEN [@ EXCEPT !.dobj = a, !.ptr = Partner(a),
                                              !.obj = NULL,
                                              !.pc = "release_find",
                                              !.cont = "drain_dtor_done"]
                               ELSE [@ EXCEPT !.dobj = a,
                                              !.pc = "drain_dtor_done"]]
    /\ UNCHANGED <<runState, obj_info, heap, objectslock, slot, ncalls,
                   numObjects, refs, ub, hintvars>>

\* lines 1455-1460, the destructor has returned
drain_dtor_done(t) ==
    /\ At(t, "drain_dtor_done")
    /\ Holds(t)
    /\ heap' = [heap EXCEPT ![th[t].dobj] = FreedHeader]
    /\ numObjects' = numObjects + 1
    /\ th' = [th EXCEPT ![t] = [@ EXCEPT !.dobj = NULL, !.pc = "drain_traverse"]]
    /\ UNCHANGED <<runState, obj_info, objects, objectslock, slot, ncalls,
                   dcalls, dby, refs, ub, hintvars>>

\* lines 1465-1468, after the unlock of line 1464
drain_bucket_free(t) ==
    /\ At(t, "drain_bucket_free")
    /\ Holds(t)
    /\ objects' = [objects EXCEPT ![th[t].dhash] = NoBucket]
    /\ th' = [th EXCEPT ![t] = [@ EXCEPT !.dhash = @ + 1, !.pc = "drain_bucket"]]
    /\ UNCHANGED <<runState, obj_info, heap, objectslock, slot, ncalls,
                   numObjects, dcalls, dby, refs, ub, hintvars>>

\* sccp_show_refcount: lines 1708-1713 and 1788
show_bucket(t) ==
    /\ At(t, "show_bucket")
    /\ Holds(t)
    /\ th' = [th EXCEPT ![t] =
                 IF th[t].dhash < SCCP_HASH_PRIME
                 THEN IF objects[th[t].dhash].exists
                      THEN [@ EXCEPT !.pc = "show_entries"]
                      ELSE [@ EXCEPT !.dhash = @ + 1]
                 ELSE Returned(t, NULL)]
    /\ UNCHANGED <<runState, obj_info, heap, objects, objectslock, slot, ncalls,
                   numObjects, dcalls, dby, refs, ub, hintvars>>

\* lines 1714-1774: the entries of one bucket, under its read lock
show_entries(t) ==
    /\ At(t, "show_entries")
    /\ Holds(t)
    /\ th' = [th EXCEPT ![t] = [@ EXCEPT !.dhash = @ + 1, !.pc = "show_bucket"]]
    /\ UNCHANGED <<runState, obj_info, heap, objects, objectslock, slot, ncalls,
                   numObjects, dcalls, dby, refs, ub, hintvars>>

Call_show(t) ==
    /\ CanCall(t)
    /\ th' = [th EXCEPT ![t] = [IdleThread EXCEPT !.pc = "show_bucket",
                                                  !.op = "show"]]
    /\ ncalls' = ncalls + 1
    /\ UNCHANGED <<runState, obj_info, heap, objects, objectslock, slot,
                   numObjects, dcalls, dby, ub, hintvars>>
    /\ refs' = RefsReturned(t)

\* ---------------- SpecTiers: the locks of retains, releases, listings and
\* an unload.  From the state of InitHeld (destructors that do not call the
\* engine), one thread unloads; threads retain any object, release
\* references they own and list the directory until the unload has returned.
MaxTierCalls == 3

Tiers_destroy(t) ==
    /\ Budget(MaxTierCalls)
    /\ runState = SCCP_REF_RUNNING
    /\ \A u \in Threads : th[u].op # "destroy"
    /\ Call_destroy(t)

Tiers_call(t) ==
    /\ Budget(MaxTierCalls)
    /\ runState # SCCP_REF_DESTROYED
    /\ \/ \E a \in Addr : Call_retain(t, a)
       \/ \E a \in Addr : Owns(t, a) > 0 /\ Call_release(t, a)
       \/ Call_show(t)

NextTiers ==
    \E t \in Threads :
        \/ Tiers_destroy(t)
        \/ Tiers_call(t)
        \/ lock_acquire(t)
        \/ lock_release(t)
        \/ Holds(t) /\ retain_find(t)
        \/ Holds(t) /\ retain_incr(t)
        \/ Holds(t) /\ retain_incr_freed(t)
        \/ Holds(t) /\ release_find(t)
        \/ Holds(t) /\ release_decr(t)
        \/ Holds(t) /\ release_decr_freed(t)
        \/ Holds(t) /\ release_alive(t)
        \/ Holds(t) /\ release_alive_freed(t)
        \/ Holds(t) /\ remove_obj_list(t)
        \/ Holds(t) /\ remove_obj_destroy(t)
        \/ Holds(t) /\ remove_obj_cleanup_check(t)
        \/ Holds(t) /\ remove_obj_cleanup(t)
        \/ Holds(t) /\ remove_obj_cleanup_nobucket(t)
        \/ Holds(t) /\ destroy_start(t)
        \/ drain_enter(t)
        \/ drain_bucket(t)
        \/ drain_traverse(t)
        \/ drain_dtor_done(t)
        \/ drain_bucket_free(t)
        \/ Holds(t) /\ destroy_unlock(t)
        \/ show_bucket(t)
        \/ show_entries(t)

SpecTiers == InitHeld /\ [][NextTiers]_vars

\* ------------------ SpecLocks: an unload among retains, releases, listings
\* The objects are allocated, in address order.  The last one is an object
\* the others keep a reference to: their type's destructor releases it.
\* Thread 1 owns the first reference of that object; the first references of
\* the others are not given back before the unload, which is what leaves
\* them to it.  One thread unloads; threads retain any object, release
\* references they own and list the directory until the unload has returned.
MaxLockCalls == 3

InitLinked ==
    /\ runState = SCCP_REF_RUNNING
    /\ obj_info = [ty \in Types |-> IF ty = 0 THEN ReleasingDtor
                                    ELSE IF ty = 1 THEN 1 ELSE NULL]
    /\ heap = [a \in Addr |->
                  IF a < NumAddr
                  THEN [st |-> "used", refcount |-> 1,
                        alive |-> SCCP_LIVE_MARKER, type |-> 0,
                        identifier |-> NewIdentifier]
                  ELSE [st |-> "used", refcount |-> NumAddr,
                        alive |-> SCCP_LIVE_MARKER, type |-> 1,
                        identifier |-> NewIdentifier]]
    /\ objects = [h \in Hashes |->
                     IF StormList(h, NumAddr) = <<>> THEN NoBucket
                     ELSE [exists |-> TRUE, list |-> StormList(h, NumAddr)]]
    /\ objectslock = 0
    /\ slot = [s \in Slots |-> NULL]
    /\ th = [t \in Threads |-> IdleThread]
    /\ ncalls = 0
    /\ numObjects = 0
    /\ dcalls = [a \in Addr |-> 0]
    /\ dby = [a \in Addr |-> [by |-> "none", old |-> 0]]
    /\ refs = [t \in Threads |->
                  [a \in Addr |-> IF t = 1 /\ a = NumAddr THEN 1 ELSE 0]]
    /\ ub = "none"
    /\ NoHints

Locks_destroy(t) ==
    /\ Budget(MaxLockCalls)
    /\ runState = SCCP_REF_RUNNING
    /\ \A u \in Threads : th[u].op # "destroy"
    /\ Call_destroy(t)

Locks_call(t) ==
    /\ Budget(MaxLockCalls)
    /\ runState # SCCP_REF_DESTROYED
    /\ \/ \E a \in Addr : Call_retain(t, a)
       \/ \E a \in Addr : Owns(t, a) > 0 /\ Call_release(t, a)
       \/ Call_show(t)

\* the steps of thread t inside the engine
LockStep(t) ==
    \/ lock_acquire(t)
    \/ lock_self(t)
    \/ lock_release(t)
    \/ Holds(t) /\ retain_find(t)
    \/ Holds(t) /\ retain_incr(t)
    \/ Holds(t) /\ retain_incr_freed(t)
    \/ Holds(t) /\ release_find(t)
    \/ Holds(t) /\ release_decr(t)
    \/ Holds(t) /\ release_decr_freed(t)
    \/ Holds(t) /\ release_alive(t)
    \/ Holds(t) /\ remove_obj_list(t)
    \/ Holds(t) /\ remove_obj_destroy(t)
    \/ Holds(t) /\ remove_obj_cleanup_check(t)
    \/ Holds(t) /\ destroy_start(t)
    \/ drain_enter(t)
    \/ drain_bucket(t)
    \/ drain_traverse(t)
    \/ drain_dtor_done(t)
    \/ drain_bucket_free(t)
    \/ Holds(t) /\ destroy_unlock(t)
    \/ show_bucket(t)
    \/ show_entries(t)

NextLocks ==
    \E t \in Threads :
        \/ Locks_destroy(t)
        \/ Locks_call(t)
        \/ LockStep(t)

SpecLocks == InitLinked /\ [][NextLocks]_vars

\* every thread that can take a step of the engine eventually takes one
FairSpecLocks == SpecLocks /\ \A t \in Threads : WF_vars(LockStep(t))

\* ------------------ SpecIdent: identifier updates among releases
\* Every object is allocated and every thread holds one reference
\* to each. The threads release the objects they hold a reference to, and
\* update the identifier of an object they hold a reference to or of an
\* address that is not a live object: NULL, an address the engine never
\* handed out, an object already destroyed. The objects addressed are the
\* first of every bucket's chain; the others stay in their buckets.
MaxIdentCalls == 3

\* the identifiers the callers pass (line 1848): the one the allocations gave
\* and another one
OtherIdentifier == 2

Idents == {NewIdentifier, OtherIdentifier}

InitShared ==
    /\ runState = SCCP_REF_RUNNING
    /\ obj_info = [ty \in Types |-> IF ty = 0 THEN 1 ELSE NULL]
    /\ heap = [a \in Addr |-> [st |-> "used", refcount |-> NumThreads,
                               alive |-> SCCP_LIVE_MARKER, type |-> 0,
                               identifier |-> NewIdentifier]]
    /\ objects = [h \in Hashes |->
                     IF StormList(h, NumAddr) = <<>> THEN NoBucket
                     ELSE [exists |-> TRUE, list |-> StormList(h, NumAddr)]]
    /\ objectslock = 0
    /\ slot = [s \in Slots |-> NULL]
    /\ th = [t \in Threads |-> IdleThread]
    /\ ncalls = 0
    /\ numObjects = 0
    /\ dcalls = [a \in Addr |-> 0]
    /\ dby = [a \in Addr |-> [by |-> "none", old |-> 0]]
    /\ refs = [t \in Threads |-> [a \in Addr |-> 1]]
    /\ ub = "none"
    /\ NoHints

NextIdent ==
    \E t \in Threads :
        \/ \E a \in Pointers \cap Addr :
              Budget(MaxIdentCalls) /\ Owns(t, a) > 0 /\ Call_release(t, a)
        \/ \E p \in Pointers : \E id \in Idents :
              /\ Budget(MaxIdentCalls)
              /\ IF p \in Addr THEN Owns(t, p) > 0 \/ sccp_refcount_find_obj(p) = NULL
                 ELSE TRUE
              /\ Call_updateIdentifier(t, p, id)
        \/ release_find(t)
        \/ release_decr(t)
        \/ release_alive(t)
        \/ remove_obj_list(t)
        \/ remove_obj_destroy(t)
        \/ remove_obj_cleanup_check(t)
        \/ remove_obj_cleanup(t)
        \/ update_find(t)
        \/ update_copy(t)

SpecIdent == InitShared /\ [][NextIdent]_vars

\* ------------------ SpecUnload: an unload among releases in flight
\* Every object is allocated and every thread holds one reference to each.
\* The threads release the references they hold, and one of them calls
\* sccp_refcount_destroy at any point, with the releases of the others
\* anywhere between their lookup and their return. The objects released are
\* the first of every bucket's chain.
MaxUnloadCalls == 3

NextUnload ==
    \E t \in Threads :
        \/ Budget(MaxUnloadCalls) /\ Stop_destroy(t)
        \/ \E a \in Pointers \cap Addr :
              Budget(MaxUnloadCalls) /\ Owns(t, a) > 0 /\ Call_release(t, a)
        \/ destroy_start(t)
        \/ destroy_lock(t)
        \/ destroy_bucket(t)
        \/ destroy_unlock(t)
        \/ release_find(t)
        \/ release_decr(t)
        \/ release_decr_freed(t)
        \/ release_alive(t)
        \/ release_alive_freed(t)
        \/ remove_obj_list(t)
        \/ remove_obj_destroy(t)
        \/ remove_obj_cleanup_check(t)
        \/ remove_obj_cleanup(t)
        \/ remove_obj_cleanup_nobucket(t)
        \/ lock_destroyed(t)

SpecUnload == InitShared /\ [][NextUnload]_vars

\* ----------------- SpecAssign: one caller assigning any pointer at all
\* From the state of InitOne, one thread allocates, releases references it
\* owns, and calls sccp_refcount_replace on its reference variable with any
\* pointer: NULL, an address the engine never handed out, an object that is
\* alive or one that is already destroyed.
MaxAssignCalls == 4

NextAssign ==
    \/ Budget(MaxAssignCalls) /\ Call_alloc(1, 0, 1)
    \/ \E a \in Addr : Budget(MaxAssignCalls) /\ Owns(1, a) > 0 /\ Call_release(1, a)
    \/ \E s \in Slots : \E n \in Addr \cup {NULL, Unmanaged} :
          /\ Budget(MaxAssignCalls)
          /\ n \in Addr => Published(n)
          /\ Call_replace(1, s, n)
    \/ object_alloc_check(1)
    \/ object_alloc_register(1)
    \/ object_alloc_create(1)
    \/ object_alloc_insert(1)
    \/ object_alloc_alive(1)
    \/ retain_find(1)
    \/ retain_incr(1)
    \/ release_find(1)
    \/ release_decr(1)
    \/ release_alive(1)
    \/ remove_obj_list(1)
    \/ remove_obj_destroy(1)
    \/ remove_obj_cleanup_check(1)
    \/ remove_obj_cleanup(1)
    \/ replace_start(1)
    \/ replace_retained(1)
    \/ replace_released(1)

SpecAssign == InitOne /\ [][NextAssign]_vars

\* ============================================================ the hint module
\* lines 964-982: a hint string is "exten" or "exten@context"; strsep splits
\* it at the first "@", and a string without context gets GLOB(context).
\* Hint strings are sequences <<exten>> or <<exten, context>>.
GlobContext == "default"

ParseHint(hintStr) ==
    [exten |-> hintStr[1],
     context |-> IF Len(hintStr) > 1 THEN hintStr[2] ELSE GlobContext]

\* the hint strings on the buttons of the devices
HintStrs == {<<"101">>, <<"101", "default">>, <<"102">>}

\* the lines the hints watch (hint->type.internal.lineName, lines 1162-1170)
LineNames == {"101", "102"}

\* lines 986-994 and 1064-1073: the first entry of sccp_hint_subscriptions
\* with this exten and this context, NULL if there is none
FindHint(e, c) ==
    LET L == sccp_hint_subscriptions.list
        I == {i \in 1..Len(L) : hints[L[i]].exten = e /\ hints[L[i]].context = c}
    IN IF I = {} THEN NULL ELSE L[CHOOSE i \in I : \A j \in I : i <= j]

\* the entries of a subscriber list that stay when those of device d go
\* (lines 228-231 and 1082-1085)
RECURSIVE WithoutDevice(_, _)
WithoutDevice(subs, d) ==
    IF subs = <<>> THEN <<>>
    ELSE IF Head(subs) = d THEN WithoutDevice(Tail(subs), d)
    ELSE <<Head(subs)>> \o WithoutDevice(Tail(subs), d)

RECURSIVE CountDevice(_, _)
CountDevice(subs, d) ==
    IF subs = <<>> THEN 0
    ELSE (IF Head(subs) = d THEN 1 ELSE 0) + CountDevice(Tail(subs), d)

\* SCCP_LIST_REMOVE_CURRENT (line 597) on the entry at position i
RemoveAt(subs, i) == SubSeq(subs, 1, i - 1) \o SubSeq(subs, i + 1, Len(subs))

\* a thread in a hint function has the locals of the hint functions as well
HintThread ==
    [device |-> NULL, hintStr |-> <<>>, exten |-> "", context |-> "",
     hint |-> NULL, idx |-> 0, cursor |-> 0, outer |-> "none", todo |-> <<>>,
     line |-> "", state |-> "none", previousState |-> "none",
     \* the references the call has obtained and not given back
     owed |-> 0,
     \* the references of subscriber entries the call has released
     released |-> 0] @@ IdleThread

\* the functions of the hint module
HintOps == {"subscribeHint", "unSubscribeHint", "deviceUnRegistered",
            "module_stop", "lineStatusChanged"}

\* a hint call returns to its caller: its locals are gone; what it was
\* called with and the references it still owes are kept for the record
HintReturned(t) ==
    [HintThread EXCEPT !.pc = "ret", !.op = th[t].op, !.device = th[t].device,
                       !.hintStr = th[t].hintStr, !.line = th[t].line,
                       !.owed = th[t].owed, !.released = th[t].released]

\* the thread touches a hint block that sccp_hint_module_stop has freed
\* (line 112); in sccp_hint_subscribeHint the device is retained (line 1014)
\* before the entry is linked into the freed block (line 1021)
hint_freed(t) ==
    /\ At(t, th[t].pc)
    /\ th[t].pc \in {"sub_attach", "ns_lock", "ns_loop", "ns_unlock",
                     "unsub_remove", "unreg_next"}
    /\ th[t].hint # NULL
    /\ hints[th[t].hint].st = "freed"
    /\ \E outcome \in {"ub", "crash"} : ub' = outcome
    /\ th' = [th EXCEPT ![t] = HintReturned(t)]
    /\ IF th[t].pc = "sub_attach"
       THEN \E retained \in BOOLEAN :
               devrefs' = IF retained
                          THEN [devrefs EXCEPT ![th[t].device] = @ + 1]
                          ELSE devrefs
       ELSE UNCHANGED devrefs
    /\ UNCHANGED <<enginevars, ncalls, sccp_hint_subscriptions, hints>>

\* ----------------------------------------------------- sccp_hint_subscribeHint
\* lines 966-994: no device, no subscription; then the traversal of
\* sccp_hint_subscriptions, without its lock
sub_find(t) ==
    /\ At(t, "sub_find")
    /\ LET k == ParseHint(th[t].hintStr)
           h == FindHint(k.exten, k.context)
       IN th' = [th EXCEPT ![t] =
                    IF th[t].device = NULL THEN HintReturned(t)
                    ELSE [@ EXCEPT !.exten = k.exten, !.context = k.context,
                                   !.hint = h,
                                   !.pc = IF h = NULL THEN "sub_create"
                                          ELSE "sub_attach"]]
    /\ UNCHANGED <<enginevars, ncalls, ub, hintvars>>

\* lines 998-1000 and sccp_hint_create (lines 1097-1186): NULL when the
\* dialplan has no such hint; otherwise a zeroed block with exten, context
\* and the initial state CALLREMOTEMULTILINE, and for a hint on a line that
\* exists a first status update (line 1180), which leaves previousState =
\* currentState (the state it computes is taken to be the initial one)
sub_create(t) ==
    /\ At(t, "sub_create")
    /\ \/ /\ th' = [th EXCEPT ![t] = HintReturned(t)]
          /\ UNCHANGED hints
       \/ \E updated \in BOOLEAN :
             /\ Len(hints) < NumHints
             /\ hints' = Append(hints,
                   [NewHint EXCEPT !.exten = th[t].exten,
                       !.context = th[t].context,
                       !.currentState = "CALLREMOTEMULTILINE",
                       !.previousState = IF updated THEN "CALLREMOTEMULTILINE"
                                         ELSE "none"])
             /\ th' = [th EXCEPT ![t] = [@ EXCEPT !.hint = Len(hints) + 1,
                                                  !.pc = "sub_insert"]]
    /\ UNCHANGED <<enginevars, ncalls, ub, sccp_hint_subscriptions, devrefs>>

\* lines 1002-1004, under the lock of sccp_hint_subscriptions
InsertHint(list, h) == <<h>> \o list

sub_insert(t) ==
    /\ At(t, "sub_insert")
    /\ sccp_hint_subscriptions.lock = 0
    /\ sccp_hint_subscriptions' =
          [sccp_hint_subscriptions EXCEPT !.list = InsertHint(@, th[t].hint)]
    /\ th' = [th EXCEPT ![t] = [@ EXCEPT !.pc = "sub_attach"]]
    /\ UNCHANGED <<enginevars, ncalls, ub, hints, devrefs>>

\* lines 1011-1026: the subscriber entry; its device is the result of
\* sccp_device_retain (NULL when the device is no longer alive); the entry
\* goes to the head of hint->subscribers, whose lock is not taken (the
\* traversal of another thread keeps its entry: its position moves on by
\* one); then sccp_hint_notifySubscribers(hint)
SubscriberDevice(d, retained) == IF retained THEN d ELSE NULL

sub_attach(t) ==
    /\ At(t, "sub_attach")
    /\ hints[th[t].hint].st = "used"
    /\ \E retained \in BOOLEAN :
          /\ hints' = [hints EXCEPT ![th[t].hint].subscribers =
                          <<SubscriberDevice(th[t].device, retained)>> \o @]
          /\ devrefs' = IF retained
                        THEN [devrefs EXCEPT ![th[t].device] = @ + 1]
                        ELSE devrefs
    /\ th' = [u \in Threads |->
                 IF u = t
                 THEN [th[u] EXCEPT !.pc = "ns_lock", !.outer = "subscribe"]
                 ELSE IF th[u].pc = "ns_loop" /\ th[u].hint = th[t].hint
                 THEN [th[u] EXCEPT !.cursor = @ + 1]
                 ELSE th[u]]
    /\ UNCHANGED <<enginevars, ncalls, ub, sccp_hint_subscriptions>>

\* ------------------------------------------------- sccp_hint_notifySubscribers
\* the function that called sccp_hint_notifySubscribers goes on
NotifyReturned(t) ==
    IF th[t].outer = "update" THEN [th[t] EXCEPT !.pc = "hsu_done"]
    ELSE HintReturned(t)

\* line 593: SCCP_LIST_LOCK(&hint->subscribers)
ns_lock(t) ==
    /\ At(t, "ns_lock")
    /\ hints[th[t].hint].st = "used"
    /\ hints[th[t].hint].lock = 0
    /\ hints' = [hints EXCEPT ![th[t].hint].lock = t]
    /\ th' = [th EXCEPT ![t] = [@ EXCEPT !.pc = "ns_loop", !.cursor = 1]]
    /\ UNCHANGED <<enginevars, ncalls, ub, sccp_hint_subscriptions, devrefs>>

\* sccp_device_retain, sccp_line_find_byname, sccp_channel_retain and
\* sccp_linedevice_retain hand the caller one reference when they succeed
Retained(r, ok) == [r EXCEPT !.owed = @ + (IF ok THEN 1 ELSE 0)]

\* sccp_device_release, sccp_line_release, sccp_channel_release and
\* sccp_linedevice_release give one reference back
ReferenceReleased(r) == [r EXCEPT !.owed = @ - 1]

\* lines 611-615 and 688-691: the message could not be allocated; the device
\* is released and the function returns
NoMessage(t) == NotifyReturned(t)

\* lines 594-717, one subscriber: an entry without device is unlinked and
\* freed; nothing is sent when the state has not changed; otherwise the
\* device is retained, the message allocated and sent, and the device
\* released (line 717 is reached with d = NULL when the retain failed)
ns_loop(t) ==
    /\ At(t, "ns_loop")
    /\ hints[th[t].hint].st = "used"
    /\ LET h == th[t].hint
           subs == hints[h].subscribers
           i == th[t].cursor
       IN IF i > Len(subs)
          THEN /\ th' = [th EXCEPT ![t] = [@ EXCEPT !.pc = "ns_unlock"]]
               /\ UNCHANGED hints
          ELSE IF subs[i] = NULL
          THEN /\ hints' = [hints EXCEPT ![h].subscribers = RemoveAt(subs, i)]
               /\ UNCHANGED th
          ELSE IF hints[h].currentState = hints[h].previousState
          THEN /\ th' = [th EXCEPT ![t] = [@ EXCEPT !.cursor = i + 1]]
               /\ UNCHANGED hints
          ELSE /\ UNCHANGED hints
               /\ \E retained \in BOOLEAN : \E message \in BOOLEAN :
                     th' = [th EXCEPT ![t] =
                               IF ~retained THEN [@ EXCEPT !.cursor = i + 1]
                               ELSE IF ~message
                               THEN ReferenceReleased(Retained(NoMessage(t), TRUE))
                               ELSE ReferenceReleased(Retained(
                                        [@ EXCEPT !.cursor = i + 1], TRUE))]
    /\ UNCHANGED <<enginevars, ncalls, ub, sccp_hint_subscriptions, devrefs>>

\* line 720: SCCP_LIST_UNLOCK(&hint->subscribers)
ns_unlock(t) ==
    /\ At(t, "ns_unlock")
    /\ hints[th[t].hint].st = "used"
    /\ hints' = [hints EXCEPT ![th[t].hint].lock = 0]
    /\ th' = [th EXCEPT ![t] = NotifyReturned(t)]
    /\ UNCHANGED <<enginevars, ncalls, ub, sccp_hint_subscriptions, devrefs>>

\* --------------------------------------------------- sccp_hint_unSubscribeHint
\* lines 1063-1076, under the lock of sccp_hint_subscriptions
unsub_find(t) ==
    /\ At(t, "unsub_find")
    /\ sccp_hint_subscriptions.lock = 0
    /\ LET k == ParseHint(th[t].hintStr)
           h == FindHint(k.exten, k.context)
       IN th' = [th EXCEPT ![t] =
                    IF h = NULL THEN HintReturned(t)
                    ELSE [@ EXCEPT !.exten = k.exten, !.context = k.context,
                                   !.hint = h, !.pc = "unsub_remove"]]
    /\ UNCHANGED <<enginevars, ncalls, ub, hintvars>>

\* line 1084: subscriber->device = sccp_device_release(subscriber->device)
\* for every entry unlinked
ReleasedBy_bug(subs, d) == 0

ReleasedBy(subs, d) == CountDevice(subs, d)

\* lines 1080-1087, under the lock of hint->subscribers
unsub_remove(t) ==
    /\ At(t, "unsub_remove")
    /\ hints[th[t].hint].st = "used"
    /\ hints[th[t].hint].lock = 0
    /\ LET h == th[t].hint
           d == th[t].device
       IN /\ hints' = [hints EXCEPT ![h].subscribers = WithoutDevice(@, d)]
          /\ devrefs' = IF d = NULL THEN devrefs
                        ELSE [devrefs EXCEPT ![d] =
                                 @ - ReleasedBy(hints[h].subscribers, d)]
    /\ th' = [th EXCEPT ![t] =
                 [HintReturned(t) EXCEPT !.released =
                     IF th[t].device = NULL THEN 0
                     ELSE ReleasedBy(hints[th[t].hint].subscribers, th[t].device)]]
    /\ UNCHANGED <<enginevars, ncalls, ub, sccp_hint_subscriptions>>

\* ------------------------------------------------ sccp_hint_deviceUnRegistered
\* lines 224-235: the traversal of sccp_hint_subscriptions, without its lock;
\* todo holds the hints the traversal has still to visit; each one under the
\* lock of its subscribers
unreg_next(t) ==
    /\ At(t, "unreg_next")
    /\ IF th[t].todo = <<>>
       THEN /\ th' = [th EXCEPT ![t] = HintReturned(t)]
            /\ UNCHANGED <<hints, devrefs>>
       ELSE LET h == Head(th[t].todo)
                d == th[t].device
            IN /\ hints[h].st = "used"
               /\ hints[h].lock = 0
               /\ hints' = [hints EXCEPT ![h].subscribers = WithoutDevice(@, d)]
               /\ devrefs' = [devrefs EXCEPT ![d] =
                                 @ - ReleasedBy(hints[h].subscribers, d)]
               /\ th' = [th EXCEPT ![t] =
                            [@ EXCEPT !.todo = Tail(@),
                                      !.released = @ +
                                          ReleasedBy(hints[h].subscribers, d),
                                      !.hint = IF Len(th[t].todo) > 1
                                               THEN th[t].todo[2] ELSE NULL]]
    /\ UNCHANGED <<enginevars, ncalls, ub, sccp_hint_subscriptions>>

\* ------------------------------------------------------- sccp_hint_module_stop
\* the device references the entries of a subscriber list own
RECURSIVE OwnedIn(_, _)
OwnedIn(H, d) ==
    IF H = {} THEN 0
    ELSE LET h == CHOOSE x \in H : TRUE
         IN CountDevice(hints[h].subscribers, d) + OwnedIn(H \ {h}, d)

Listed == {sccp_hint_subscriptions.list[i] :
              i \in 1..Len(sccp_hint_subscriptions.list)}

\* the device references the entries of all listed hints own
RECURSIVE OwnedByAll(_)
OwnedByAll(D) ==
    IF D = {} THEN 0
    ELSE LET d == CHOOSE x \in D : TRUE
         IN OwnedIn(Listed, d) + OwnedByAll(D \ {d})

\* lines 103-114, under the lock of sccp_hint_subscriptions: every hint is
\* unlinked, its entries unlinked, their devices released, and all are freed
module_stop(t) ==
    /\ At(t, "stop_all")
    /\ sccp_hint_subscriptions.lock = 0
    /\ devrefs' = [d \in Devs |-> devrefs[d] - OwnedIn(Listed, d)]
    /\ hints' = [h \in DOMAIN hints |->
                    IF h \in Listed
                    THEN [NewHint EXCEPT !.st = "freed", !.lock = hints[h].lock]
                    ELSE hints[h]]
    /\ sccp_hint_subscriptions' = [sccp_hint_subscriptions EXCEPT !.list = <<>>]
    /\ th' = [th EXCEPT ![t] =
                 [HintReturned(t) EXCEPT !.released = OwnedByAll(Devs)]]
    /\ UNCHANGED <<enginevars, ncalls, ub>>

\* ------------------------------------------- sccp_hint_lineStatusChangedDebug
\* lines 259-262: no line, nothing to do; SCCP_LIST_LOCK(&sccp_hint_subscriptions)
ls_lock(t) ==
    /\ At(t, "ls_lock")
    /\ sccp_hint_subscriptions.lock = 0
    /\ sccp_hint_subscriptions' = [sccp_hint_subscriptions EXCEPT !.lock = t]
    /\ th' = [th EXCEPT ![t] = [@ EXCEPT !.pc = "ls_next", !.idx = 1]]
    /\ UNCHANGED <<enginevars, ncalls, ub, hints, devrefs>>

\* lines 263-279: every hint on this line takes the states given and is
\* updated; after the last one SCCP_LIST_UNLOCK(&sccp_hint_subscriptions)
ls_next(t) ==
    /\ At(t, "ls_next")
    /\ LET L == sccp_hint_subscriptions.list
           i == th[t].idx
       IN IF i > Len(L)
          THEN /\ sccp_hint_subscriptions' =
                     [sccp_hint_subscriptions EXCEPT !.lock = 0]
               /\ th' = [th EXCEPT ![t] = HintReturned(t)]
               /\ UNCHANGED hints
          ELSE IF hints[L[i]].exten = th[t].line
          THEN /\ hints' = [hints EXCEPT ![L[i]] =
                     [@ EXCEPT
                        !.currentState = IF th[t].state # "none"
                                         THEN th[t].state ELSE @,
                        !.previousState = IF th[t].previousState # "none"
                                          THEN th[t].previousState ELSE @]]
               /\ th' = [th EXCEPT ![t] = [@ EXCEPT !.hint = L[i], !.pc = "hsu_find"]]
               /\ UNCHANGED sccp_hint_subscriptions
          ELSE /\ th' = [th EXCEPT ![t] = [@ EXCEPT !.idx = i + 1]]
               /\ UNCHANGED <<sccp_hint_subscriptions, hints>>
    /\ UNCHANGED <<enginevars, ncalls, ub, devrefs>>

\* ------------------------------------------------- sccp_hint_hintStatusUpdate
\* the number of channels a line can have
MaxChannels == 2

\* lines 294-308: the line of the hint, by name; a line with more than one
\* channel is a shared line
hsu_find(t) ==
    /\ At(t, "hsu_find")
    /\ \E found \in BOOLEAN : \E channels \in 0..MaxChannels :
          th' = [th EXCEPT ![t] =
                    IF ~found THEN [@ EXCEPT !.pc = "ls_next", !.idx = @ + 1]
                    ELSE Retained([@ EXCEPT !.pc = IF channels > 1
                                                    THEN "hsu_shared"
                                                    ELSE "hsu_single"], TRUE)]
    /\ UNCHANGED <<enginevars, ncalls, ub, hintvars>>

\* lines 358-363: the only channel of the line could not be retained; the
\* function returns at once
NoChannel(r) == r

\* sccp_hint_notificationForSharedLine (lines 327-387): the line is found
\* again; then by the number of its channels, read now
hsu_shared(t) ==
    /\ At(t, "hsu_shared")
    /\ \E found \in BOOLEAN : \E channels \in 0..MaxChannels :
       \E retained \in BOOLEAN : \E devices \in 0..1 : \E onhook \in BOOLEAN :
          LET r == [th[t] EXCEPT !.pc = "ns_lock", !.outer = "update"]
              h == th[t].hint
          IN IF ~found
             THEN /\ retained /\ devices = 0 /\ onhook /\ channels = 0
                  /\ th' = [th EXCEPT ![t] = r]
                  /\ hints' = [hints EXCEPT ![h].currentState =
                                  "CALLREMOTEMULTILINE"]
             ELSE IF channels = 1
             THEN /\ devices = 0
                  /\ IF retained
                     THEN /\ th' = [th EXCEPT ![t] =
                                ReferenceReleased(ReferenceReleased(
                                    Retained(Retained(r, TRUE), TRUE)))]
                          /\ hints' = [hints EXCEPT ![h].currentState =
                                IF onhook THEN "ONHOOK"
                                ELSE "CALLREMOTEMULTILINE"]
                     ELSE /\ onhook
                          /\ th' = [th EXCEPT ![t] = NoChannel(Retained(r, TRUE))]
                          /\ hints' = [hints EXCEPT ![h].currentState =
                                "CALLREMOTEMULTILINE"]
             ELSE /\ retained /\ onhook
                  /\ channels = 0 \/ devices = 0
                  /\ th' = [th EXCEPT ![t] = ReferenceReleased(Retained(r, TRUE))]
                  /\ hints' = [hints EXCEPT ![h].currentState =
                        IF channels > 1 THEN "CALLREMOTEMULTILINE"
                        ELSE IF devices = 0 THEN "CONGESTION" ELSE "ONHOOK"]
    /\ UNCHANGED <<enginevars, ncalls, ub, sccp_hint_subscriptions, devrefs>>

\* sccp_hint_notificationForSingleLine (lines 397-567): without line or
\* without device CONGESTION; with a channel its state decides, and the
\* channel, the line device and the device are retained and released;
\* without channel ONHOOK or DND; at DONE the line is released
hsu_single(t) ==
    /\ At(t, "hsu_single")
    /\ \E found \in BOOLEAN : \E devices \in 0..1 : \E channel \in BOOLEAN :
       \E linedevice \in BOOLEAN :
       \E state \in {"ONHOOK", "CALLREMOTEMULTILINE"} :
          LET r == [th[t] EXCEPT !.pc = "ns_lock", !.outer = "update"]
              h == th[t].hint
          IN IF ~found \/ devices = 0
             THEN /\ ~channel /\ ~linedevice /\ state = "ONHOOK"
                  /\ found \/ devices = 0
                  /\ th' = [th EXCEPT ![t] =
                               IF found THEN ReferenceReleased(Retained(r, TRUE))
                               ELSE r]
                  /\ hints' = [hints EXCEPT ![h].currentState = "CONGESTION"]
             ELSE IF channel
             THEN /\ th' = [th EXCEPT ![t] =
                        ReferenceReleased(ReferenceReleased(
                            (IF linedevice
                             THEN ReferenceReleased(ReferenceReleased(
                                      Retained(Retained(
                                          Retained(Retained(r, TRUE), TRUE),
                                          TRUE), TRUE)))
                             ELSE Retained(Retained(r, TRUE), TRUE))))]
                  /\ hints' = [hints EXCEPT ![h].currentState = state]
             ELSE /\ ~linedevice /\ state = "ONHOOK"
                  /\ th' = [th EXCEPT ![t] = ReferenceReleased(Retained(r, TRUE))]
                  /\ hints' = [hints EXCEPT ![h].currentState = "ONHOOK"]
    /\ UNCHANGED <<enginevars, ncalls, ub, sccp_hint_subscriptions, devrefs>>

\* lines 313-314: previousState follows currentState, the line is released;
\* back in the traversal of sccp_hint_lineStatusChangedDebug
hsu_done(t) ==
    /\ At(t, "hsu_done")
    /\ hints' = [hints EXCEPT ![th[t].hint].previousState =
                    hints[th[t].hint].currentState]
    /\ th' = [th EXCEPT ![t] =
                 ReferenceReleased([@ EXCEPT !.pc = "ls_next", !.idx = @ + 1])]
    /\ UNCHANGED <<enginevars, ncalls, ub, sccp_hint_subscriptions, devrefs>>

\* ------------------------------------------------------------------ the calls
HintCall(op, label) == [HintThread EXCEPT !.pc = label, !.op = op]

Call_subscribeHint(t, d, hintStr) ==
    /\ CanCall(t)
    /\ th' = [th EXCEPT ![t] = [HintCall("subscribeHint", "sub_find") EXCEPT
                                   !.device = d, !.hintStr = hintStr]]
    /\ ncalls' = ncalls + 1
    /\ UNCHANGED <<enginevars, ub, hintvars>>

Call_unSubscribeHint(t, d, hintStr) ==
    /\ CanCall(t)
    /\ th' = [th EXCEPT ![t] = [HintCall("unSubscribeHint", "unsub_find") EXCEPT
                                   !.device = d, !.hintStr = hintStr]]
    /\ ncalls' = ncalls + 1
    /\ UNCHANGED <<enginevars, ub, hintvars>>

\* the traversal starts at the head of the list as it is now (line 224)
Call_deviceUnRegistered(t, d) ==
    /\ CanCall(t)
    /\ th' = [th EXCEPT ![t] = [HintCall("deviceUnRegistered", "unreg_next") EXCEPT
                                   !.device = d,
                                   !.todo = sccp_hint_subscriptions.list,
                                   !.hint = IF sccp_hint_subscriptions.list = <<>>
                                            THEN NULL
                                            ELSE Head(sccp_hint_subscriptions.list)]]
    /\ ncalls' = ncalls + 1
    /\ UNCHANGED <<enginevars, ub, hintvars>>

Call_module_stop(t) ==
    /\ CanCall(t)
    /\ th' = [th EXCEPT ![t] = HintCall("module_stop", "stop_all")]
    /\ ncalls' = ncalls + 1
    /\ UNCHANGED <<enginevars, ub, hintvars>>

Call_lineStatusChanged(t, line, previousState, state) ==
    /\ CanCall(t)
    /\ th' = [th EXCEPT ![t] = [HintCall("lineStatusChanged", "ls_lock") EXCEPT
                                   !.line = line,
                                   !.previousState = previousState,
                                   !.state = state]]
    /\ ncalls' = ncalls + 1
    /\ UNCHANGED <<enginevars, ub, hintvars>>

\* ---------------------------------------------------- the hint specifications
\* the channel states the callers report and the hints show
ReportedStates == {"none", "ONHOOK"}

\* subscriptions and line status changes
MaxStatusCalls == 2

StatusStrs == {<<"101">>}

NextStatus ==
    \E t \in Threads :
        \/ /\ Budget(MaxStatusCalls)
           /\ \E d \in Devs : \E s \in StatusStrs : Call_subscribeHint(t, d, s)
        \/ /\ Budget(MaxStatusCalls)
           /\ \E l \in LineNames : \E p \in ReportedStates :
                 Call_lineStatusChanged(t, l, p, "none")
        \/ sub_find(t)
        \/ sub_create(t)
        \/ sub_insert(t)
        \/ sub_attach(t)
        \/ ns_lock(t)
        \/ ns_loop(t)
        \/ ns_unlock(t)
        \/ ls_lock(t)
        \/ ls_next(t)
        \/ hsu_find(t)
        \/ hsu_shared(t)
        \/ hsu_single(t)
        \/ hsu_done(t)

SpecStatus == Init /\ [][NextStatus]_vars

\* subscriptions, their removal and the unloading of the module
MaxSubscribeCalls == 2

NextSubscribe ==
    \E t \in Threads :
        \/ /\ Budget(MaxSubscribeCalls)
           /\ \E d \in Devs : \E s \in HintStrs : Call_subscribeHint(t, d, s)
        \/ /\ Budget(MaxSubscribeCalls)
           /\ \E d \in Devs : \E s \in HintStrs : Call_unSubscribeHint(t, d, s)
        \/ /\ Budget(MaxSubscribeCalls)
           /\ \E d \in Devs : Call_deviceUnRegistered(t, d)
        \/ /\ Budget(MaxSubscribeCalls)
           /\ Call_module_stop(t)
        \/ sub_find(t)
        \/ sub_create(t)
        \/ sub_insert(t)
        \/ sub_attach(t)
        \/ ns_lock(t)
        \/ ns_loop(t)
        \/ ns_unlock(t)
        \/ unsub_find(t)
        \/ unsub_remove(t)
        \/ unreg_next(t)
        \/ module_stop(t)
        \/ hint_freed(t)

SpecSubscribe == Init /\ [][NextSubscribe]_vars

\* one thread subscribes devices and removes them again while the other
\* unloads the module
MaxOwnerCalls == 3

OwnerStrs == {<<"101">>, <<"102">>}

NextOwners ==
    \/ /\ Budget(MaxOwnerCalls)
       /\ \E d \in Devs : \E s \in OwnerStrs : Call_subscribeHint(1, d, s)
    \/ /\ Budget(MaxOwnerCalls)
       /\ \E d \in Devs : \E s \in OwnerStrs : Call_unSubscribeHint(1, d, s)
    \/ /\ Budget(MaxOwnerCalls)
       /\ \E d \in Devs : Call_deviceUnRegistered(1, d)
    \/ /\ Budget(MaxOwnerCalls)
       /\ Call_module_stop(2)
    \/ sub_find(1)
    \/ sub_create(1)
    \/ sub_insert(1)
    \/ sub_attach(1)
    \/ ns_lock(1)
    \/ ns_loop(1)
    \/ ns_unlock(1)
    \/ unsub_find(1)
    \/ unsub_remove(1)
    \/ unreg_next(1)
    \/ hint_freed(1)
    \/ module_stop(2)

SpecOwners == Init /\ [][NextOwners]_vars

\* =================================================================== claims
InBucket(a) ==
    /\ objects[SCCP_SIMPLE_HASH(a)].exists
    /\ InList(objects[SCCP_SIMPLE_HASH(a)].list, a)

C2_OwnedNeverDestroyed ==
    \A a \in Addr :
        (\E t \in Threads : Owns(t, a) > 0) =>
            heap[a].st = "used" /\ dcalls[a] = 0

\* C7: an allocation that returns a pointer leaves, at its return, the header
\* with refcount 1 and alive in the bucket of the payload address, where the
\* lookup finds it.
C7_AllocReturnsRegistered ==
    [][\A t \in Threads : \A a \in Addr :
          (th[t].pc = "alloc_alive" /\ th[t].obj = a /\ th'[t].pc = "ret") =>
             /\ th'[t].ret = a
             /\ heap'[a].refcount = 1
             /\ heap'[a].alive = SCCP_LIVE_MARKER
             /\ InBucket(a)'
             /\ sccp_refcount_find_obj(a)' = a]_vars

\* C8: an allocation that found no bucket for its hash leaves the locked
\* section of lines 1531-1543 with its header in the bucket of that hash,
\* also when another thread created the bucket in between.
C8_RacingAllocsBothRegistered ==
    [][\A t \in Threads :
          (th[t].pc = "alloc_create" /\ th'[t].pc = "alloc_alive") =>
             /\ objects'[th[t].hash].exists
             /\ InList(objects'[th[t].hash].list, th[t].obj)]_vars

\* the directory the multithreaded test starts from is one the engine reaches
\* by allocations alone
StormStartReached ==
    /\ \A a \in Addr : heap[a] = [st |-> "used", refcount |-> 1,
                                  alive |-> SCCP_LIVE_MARKER, type |-> 0,
                                  identifier |-> NewIdentifier]
    /\ \A h \in Hashes : objects[h].list = StormList(h, NumAddr)
    /\ \A t \in Threads : th[t].pc \in {"idle", "ret"}

\* C3: in the multithreaded test every retain returns its pointer, every
\* release returns NULL, no release becomes a finalizer, no object is
\* destroyed, freed or taken out of its bucket, and once every thread is
\* between two passes of its loop each refcount is 1 again, as before.
StormQuiescent == \A t \in Threads : th[t].pc \in {"idle", "ret"} /\ OwnsNothing(t)

C3_StormKeepsRefcount ==
    /\ \A t \in Threads :
          /\ th[t].pc \in {"idle", "ret", "retain_find", "retain_incr",
                           "release_find", "release_decr"}
          /\ (th[t].pc = "ret" /\ th[t].op = "retain") => th[t].ret = th[t].ptr
          /\ (th[t].pc = "ret" /\ th[t].op = "release") => th[t].ret = NULL
    /\ \A a \in Addr :
          /\ heap[a].st = "used" /\ heap[a].alive = SCCP_LIVE_MARKER
          /\ dcalls[a] = 0 /\ InBucket(a)
          /\ heap[a].refcount >= 1
          /\ StormQuiescent => heap[a].refcount = 1
    /\ ub = "none"

\* two threads have each finished a pass of the loop on the same object
C3_Witness ==
    /\ StormQuiescent
    /\ \E a \in Addr : \A t \in 1..2 :
          th[t].pc = "ret" /\ th[t].op = "release" /\ th[t].ptr = a

\* C4: after N retains followed by N releases (N >= 0) on the object a
\* thread has just allocated, the object is alive, found by the lookup, has
\* refcount 1, and its destructor has not run; on the way every retain
\* returned the pointer and no destructor ran at all.
BalancedDone(a) ==
    /\ th[1].pc = "ret"
    /\ \/ th[1].op = "alloc" /\ th[1].ret = a
       \/ th[1].op = "release" /\ th[1].ptr = a
    /\ Owns(1, a) = 1

C4_BalancedKeepsAlive ==
    /\ \A a \in Addr :
          /\ dcalls[a] = 0
          /\ BalancedDone(a) =>
                /\ heap[a].st = "used" /\ heap[a].alive = SCCP_LIVE_MARKER
                /\ sccp_refcount_find_obj(a) = a
                /\ heap[a].refcount = 1
    /\ (th[1].pc = "ret" /\ th[1].op = "retain") => th[1].ret = th[1].ptr
    /\ (th[1].pc = "ret" /\ th[1].op = "release") => th[1].ret = NULL

\* three retains and three releases (seven calls with the allocation) done
C4_Witness ==
    \E a \in Addr :
        /\ BalancedDone(a) /\ th[1].op = "release"
        /\ ncalls >= 7
        /\ \A b \in Addr \ {a} : heap[b].st = "free"

\* C5: sccp_refcount_replace(slot, new) where slot held a live old # new and
\* new is live: new's refcount is never below what it was (so never 0), the
\* slot holds new only once new has been retained, old's refcount changes
\* only once the slot holds new, and on return the slot holds new, new has
\* one reference more and old one less than at the call.
ReplacingLive(t) ==
    /\ th[t].op = "replace"
    /\ th[t].replaceptr # NULL /\ th[t].newptr # NULL /\ th[t].held # NULL
    /\ th[t].held # th[t].newptr
    /\ th[t].rc0 >= 1 /\ th[t].rc1 >= 1

C5_ReplaceMovesOneReference ==
    \A t \in Threads : ReplacingLive(t) =>
        LET s == th[t].replaceptr
            new == th[t].newptr
            old == th[t].held
        IN /\ heap[new].st = "used"
           /\ heap[new].refcount \in {th[t].rc0, th[t].rc0 + 1}
           /\ slot[s] \in {old, new}
           /\ slot[s] = new => heap[new].refcount = th[t].rc0 + 1
           /\ LiveRefcount(old) # th[t].rc1 => slot[s] = new
           /\ th[t].pc = "ret" =>
                 /\ slot[s] = new
                 /\ LiveRefcount(new) = th[t].rc0 + 1
                 /\ LiveRefcount(old) = th[t].rc1 - 1

\* such a call has returned, and one whose old value lost its last reference
C5_Witness ==
    \E t \in Threads : ReplacingLive(t) /\ th[t].pc = "ret" /\ th[t].rc1 > 1

\* C6: sccp_refcount_replace(slot, v) where slot already holds the live v
\* executes no retain and no release, and changes neither v's refcount nor
\* the slot at any point of the call.
C6_SelfReplaceNoOp ==
    \A t \in Threads :
        (/\ th[t].op = "replace"
         /\ th[t].replaceptr # NULL /\ th[t].newptr # NULL
         /\ th[t].held = th[t].newptr /\ th[t].rc0 >= 1) =>
            /\ th[t].pc \in {"replace_start", "ret"}
            /\ heap[th[t].newptr].refcount = th[t].rc0
            /\ slot[th[t].replaceptr] = th[t].newptr

\* C9: while sccp_refcount_init has not run (runState is Stopped and the
\* directory lock does not exist), an allocation goes no further than the
\* runState test and returns NULL, and there is no header, no bucket and no
\* registered destructor.
BeforeInit == runState = SCCP_REF_STOPPED /\ objectslock = -1

C9_AllocBeforeInitRejected ==
    BeforeInit =>
        /\ \A a \in Addr : heap[a] = FreshHeader
        /\ \A h \in Hashes : objects[h] = NoBucket
        /\ \A ty \in Types : obj_info[ty] = NULL
        /\ \A t \in Threads : th[t].op = "alloc" =>
              /\ th[t].pc \in {"alloc_check", "ret"}
              /\ th[t].pc = "ret" => th[t].ret = NULL

C9_Witness ==
    /\ BeforeInit
    /\ \E t \in Threads : th[t].op = "alloc" /\ th[t].pc = "ret" /\ th[t].ret = NULL

\* C10: once sccp_refcount_destroy has returned, sccp_refcount_isRunning is
\* Destroyed and an allocation called from then on goes no further than the
\* runState test and returns NULL, creating no header and no bucket.
C10_AllocAfterShutdownRejected ==
    \A t \in Threads : (th[t].op = "alloc" /\ th[t].after) =>
        /\ sccp_refcount_isRunning = SCCP_REF_DESTROYED
        /\ th[t].pc \in {"alloc_check", "ret"}
        /\ th[t].pc = "ret" => th[t].ret = NULL

\* C11: a retain or release called while runState is not Running (from the
\* first statement of sccp_refcount_destroy on) gets no further than its
\* lookup and returns NULL: it changes no refcount and destroys nothing.
C11_NotRunningRejected ==
    \A t \in Threads :
        (th[t].op \in {"retain", "release"} /\ th[t].stopped) =>
            /\ th[t].pc \in {"retain_find", "release_find", "ret"}
            /\ th[t].pc = "ret" => th[t].ret = NULL

\* the objects allocated so far: in SpecDrain, where nothing is released,
\* the objects registered when sccp_refcount_destroy is called
Leftover == {a \in Addr : heap[a].st # "free"}

DrainReturned == th[1].op = "destroy" /\ th[1].pc = "ret"

\* C12: when sccp_refcount_destroy has returned, every object that was still
\* registered has had its destructor run and its header freed, whatever its
\* type, bucket and refcount, and no bucket is left in the directory.
C12_DrainDestroysAll ==
    DrainReturned =>
        /\ \A a \in Leftover : heap[a].st = "freed" /\ dcalls[a] = 1
        /\ \A h \in Hashes : objects[h] = NoBucket

\* C13: the count sccp_refcount_destroy reports (numObjects) is the number of
\* objects that were registered when it was called.
C13_DrainCountsAll ==
    DrainReturned => numObjects = Cardinality(Leftover)

\* C14: sccp_refcount_destroy runs the destructors of the leftover objects in
\* the order of their types: no destructor runs while a registered object of
\* an earlier type still waits for its own, and when the call returns the
\* destructor of every leftover object has run.
C14_DrainInTypeOrder ==
    [][/\ \A b \in Addr : dcalls'[b] > dcalls[b] =>
             \A a \in Addr :
                 ~(/\ heap[a].st = "used" /\ heap[b].st = "used"
                   /\ heap[a].type < heap[b].type
                   /\ dcalls[a] = 0 /\ dcalls'[a] = 0)
       /\ (th[1].pc = "destroy_unlock" /\ th'[1].pc = "ret") =>
             \A a \in Leftover : dcalls'[a] = 1]_vars

\* an address that is NULL, in no bucket, or in its bucket but not alive
Invalid(p) ==
    \/ p = NULL
    \/ p \notin Addr
    \/ ~InBucket(p)
    \/ heap[p].alive # SCCP_LIVE_MARKER

C16_ReleaseNullRetainSame ==
    \A t \in Threads :
        th[t].pc = "ret" =>
            /\ th[t].op = "release" => th[t].ret = NULL
            /\ th[t].op = "retain" => th[t].ret \in {NULL, th[t].ptr}

\* one thread's release has destroyed its object and returned, another's
\* retain has returned its pointer
C16_Witness ==
    \E t, u \in Threads :
        /\ th[t].op = "release" /\ th[t].pc = "ret"
        /\ th[t].ptr \in Addr /\ dcalls[th[t].ptr] = 1
        /\ th[u].op = "retain" /\ th[u].pc = "ret" /\ th[u].ret # NULL

\* C17: no step of a release of object a touches a live object b that
\* shares a's bucket: b stays in the bucket's list (so the bucket stays), its
\* header (refcount, alive) is unchanged and the lookup still finds it, also
\* when the release destroys a.
C17_CollidingObjectsIndependent ==
    [][\A t \in Threads : \A a, b \in Addr :
          (/\ a # b /\ SCCP_SIMPLE_HASH(a) = SCCP_SIMPLE_HASH(b)
           /\ th[t].op = "release" /\ th[t].ptr = a /\ th'[t] # th[t]
           /\ InBucket(b) /\ heap[b].st = "used"
           /\ heap[b].alive = SCCP_LIVE_MARKER) =>
              /\ InBucket(b)'
              /\ heap'[b] = heap[b]
              /\ sccp_refcount_find_obj(b)' = b]_vars

\* a has been released to destruction; b, of the same bucket, is found, and
\* has the refcount it had
C17_Witness ==
    \E a, b \in Addr :
        /\ a # b /\ SCCP_SIMPLE_HASH(a) = SCCP_SIMPLE_HASH(b)
        /\ heap[a].st = "freed" /\ dcalls[a] = 1 /\ dby[a].by = "release"
        /\ sccp_refcount_find_obj(b) = b /\ heap[b].refcount = 1
        /\ \A t \in Threads : th[t].pc \in {"idle", "ret"}

\* C19: when no thread owns a reference to an allocated object any more (the
\* allocation's reference and every reference a retain returned have been
\* released) and no call is in progress, the object's header is in no bucket.
AllReleased(a) ==
    /\ heap[a].st # "free"
    /\ \A t \in Threads : Owns(t, a) = 0 /\ th[t].pc \in {"idle", "ret"}

C19_NoStrandedObject ==
    \A a \in Addr : AllReleased(a) => ~InBucket(a)

\* an object retained by a second thread and then released by both
C19_Witness ==
    \E a \in Addr :
        /\ AllReleased(a) /\ heap[a].st = "freed"
        /\ \A t \in 1..2 : th[t].op = "release" /\ th[t].ptr = a

\* an allocation of type ty has gone through lines 1513-1519
TypeAllocated(ty) ==
    \E a \in Addr : heap[a].st = "used" /\ heap[a].refcount >= 1 /\ heap[a].type = ty

\* C18: once an object of a type has been allocated, no step changes the
\* destructor registered for that type.
C18_DestructorFixedByFirstAlloc ==
    [][\A ty \in Types : TypeAllocated(ty) => obj_info'[ty] = obj_info[ty]]_vars

\* C20: runState, as sccp_refcount_isRunning returns it, changes only from
\* Stopped to Running and from Running to Destroyed.
C20_RunStateTransitions ==
    [][sccp_refcount_isRunning' # sccp_refcount_isRunning =>
          \/ /\ sccp_refcount_isRunning = SCCP_REF_STOPPED
             /\ sccp_refcount_isRunning' = SCCP_REF_RUNNING
          \/ /\ sccp_refcount_isRunning = SCCP_REF_RUNNING
             /\ sccp_refcount_isRunning' = SCCP_REF_DESTROYED]_vars

Finalizing(t, a) ==
    /\ th[t].op = "release" /\ th[t].ptr = a
    /\ th[t].pc \in {"release_alive", "remove_list", "remove_destroy",
                     "remove_cleanup", "remove_cleanup_locked"}

\* C22: of the releases of one object at most one reads a decremented
\* refcount of zero, and the alive marker of a header is taken down at most
\* once: it is SCCP_LIVE_MARKER or, once taken down, 0.
C22_SingleFinalizer ==
    \A a \in Addr :
        /\ Cardinality({t \in Threads : Finalizing(t, a)}) <= 1
        /\ heap[a].st = "used" => heap[a].alive \in {0, SCCP_LIVE_MARKER}

\* C23: the refcount of a registered header is never negative, and it is at
\* least 1 whenever the lookup finds the header alive.
C23_RefcountBounds ==
    \A a \in Addr :
        (heap[a].st = "used" /\ InBucket(a)) =>
            /\ heap[a].refcount >= 0
            /\ sccp_refcount_find_obj(a) = a => heap[a].refcount >= 1

\* C24: a release whose decrement gives zero takes the alive marker down
\* from SCCP_LIVE_MARKER, then removes the header from its bucket, then runs
\* the destructor and frees the block, then looks after the empty bucket, and
\* has done all of it when it returns; a release whose decrement gives
\* another value returns having changed the refcount and nothing else.
C24_FinalizationOrder ==
    [][\A t \in Threads :
          LET a == th[t].ptr
          IN (th'[t] # th[t] /\ ub' = "none") =>
             /\ th[t].pc = "release_decr" =>
                   IF heap[a].refcount = 1
                   THEN th'[t].pc = "release_alive"
                   ELSE /\ th'[t].pc \notin {"release_alive", "remove_list",
                                            "remove_destroy", "remove_cleanup",
                                            "remove_cleanup_locked"}
                        /\ heap' = [heap EXCEPT ![a] =
                                       [@ EXCEPT !.refcount = @ - 1]]
                        /\ UNCHANGED <<objects, dcalls, dby, obj_info>>
             /\ th[t].pc = "release_alive" =>
                   /\ heap[a].alive = SCCP_LIVE_MARKER
                   /\ heap'[a].alive # SCCP_LIVE_MARKER
                   /\ InBucket(a) /\ InBucket(a)'
                   /\ dcalls' = dcalls
                   /\ th'[t].pc = "remove_list"
             /\ th[t].pc = "remove_list" =>
                   /\ InBucket(a) /\ ~InBucket(a)'
                   /\ heap[a].st = "used" /\ heap' = heap
                   /\ dcalls' = dcalls
                   /\ th'[t].pc = "remove_destroy"
             /\ th[t].pc = "remove_destroy" =>
                   /\ dcalls'[a] = dcalls[a] + 1
                   /\ dby'[a].by = "release"
                   /\ heap'[a].st = "freed"
                   /\ objects' = objects
             /\ th[t].pc \in {"remove_cleanup", "remove_cleanup_locked"} =>
                   /\ heap[a].st = "freed"
                   /\ heap' = heap /\ dcalls' = dcalls
             /\ (th[t].pc \in {"remove_destroy", "remove_cleanup",
                               "remove_cleanup_locked"}
                 /\ th'[t].pc \notin {"remove_destroy", "remove_cleanup",
                                      "remove_cleanup_locked"}) =>
                   heap'[a].st = "freed" /\ dcalls'[a] = 1 /\ ~InBucket(a)']_vars

\* no call is in progress
Quiescent == \A t \in Threads : th[t].pc \in {"idle", "ret"}

\* C28: while Running, a bucket is freed only by the cleanup of a release
\* (after its second look at the list, under objectslock) and only when its
\* list is empty; and whenever no call is in progress, every bucket that
\* exists has a header in its list.
C28_BucketFreedOnlyEmpty ==
    [][/\ \A h \in Hashes :
             (runState = SCCP_REF_RUNNING /\ objects[h].exists
                 /\ ~objects'[h].exists) =>
                /\ objects[h].list = <<>>
                /\ \E t \in Threads :
                      /\ th[t].pc = "remove_cleanup_locked" /\ th[t].hash = h
                      /\ th'[t] # th[t]
       /\ Quiescent' =>
             \A h \in Hashes : objects'[h].exists <=> objects'[h].list # <<>>]_vars

\* a release has returned and the bucket of the object it destroyed is gone;
\* no call is in progress
C28_Witness ==
    /\ Quiescent
    /\ \E t \in Threads :
          /\ th[t].op = "release" /\ th[t].pc = "ret"
          /\ heap[th[t].ptr].st = "freed"
          /\ ~objects[SCCP_SIMPLE_HASH(th[t].ptr)].exists

\* C29: an allocation that saw its bucket exist at line 1529 finds the
\* bucket still there when it locks it and inserts at line 1546.
C29_AllocInsertsInExistingBucket ==
    /\ \A t \in Threads :
          th[t].pc = "alloc_insert" => objects[th[t].hash].exists

\* C30: every address in a bucket list is the payload of a block in use, is
\* in the list of the bucket of its own hash and in no other, and is there
\* once.
C30_OneBucketOnce ==
    \A h \in Hashes :
        LET list == objects[h].list
        IN /\ \A i \in 1..Len(list) :
                 /\ list[i] \in Addr
                 /\ list[i] % SCCP_HASH_PRIME = h
                 /\ heap[list[i]].st = "used"
                 /\ \A j \in 1..Len(list) : list[j] = list[i] => j = i
           /\ ~objects[h].exists => list = <<>>

\* two headers chained in one bucket and a third in another bucket, the
\* allocations that put them there returned
C30_Witness ==
    /\ Quiescent
    /\ \E h \in Hashes : Len(objects[h].list) >= 2
    /\ \E h \in Hashes : Len(objects[h].list) = 1
    /\ \E t \in Threads : th[t].op = "alloc" /\ th[t].ret # NULL

\* C25: the thread that calls a destructor holds no bucket lock at the call,
\* in the release path and in the unload alike.
C25_NoDestructorUnderBucketLock ==
    [][\A t \in Threads :
          (th'[t] # th[t] /\ \E a \in Addr : dcalls'[a] > dcalls[a]) =>
             \A l \in th[t].locks : l.k # "bucket"]_vars

\* C26: a thread that takes objectslock holds no bucket lock, and no thread
\* holds the locks of two different buckets.
C26_LockTiers ==
    [][\A t \in Threads :
          /\ \A l \in th'[t].locks \ th[t].locks :
                l.k = "dir" => \A m \in th[t].locks : m.k # "bucket"
          /\ \A l \in th'[t].locks : \A m \in th'[t].locks :
                (l.k = "bucket" /\ m.k = "bucket") => l.h = m.h]_vars

\* C27: under fair scheduling every call that has started returns, unless
\* the run has gone through undefined behaviour.
C27_CallsReturn ==
    \A t \in Threads :
        (th[t].pc \notin {"idle", "ret"}) ~> (th[t].pc = "ret" \/ ub # "none")

\* C31: sccp_refcount_replace(slot, new) with a non-NULL new that is not a
\* live registered object (an address the engine never handed out, or an
\* object already destroyed): the retain returns NULL, the call executes no
\* release, and at every point of the call and on return the slot holds its
\* previous value and the previous value's refcount is what it was.
ReplacingWithDead(t) ==
    /\ th[t].op = "replace"
    /\ th[t].replaceptr # NULL /\ th[t].newptr # NULL
    /\ th[t].rc0 = 0

C31_FailedRetainKeepsSlot ==
    \A t \in Threads : ReplacingWithDead(t) =>
        /\ th[t].pc \in {"replace_start", "retain_find", "replace_retained", "ret"}
        /\ slot[th[t].replaceptr] = th[t].held
        /\ LiveRefcount(th[t].held) = th[t].rc1
        /\ \A a \in Addr : dcalls[a] > 0 => a # th[t].held

\* such a call has returned: the slot held a live object and the new pointer
\* was an object destroyed before the call
C31_Witness ==
    \E t \in Threads :
        /\ ReplacingWithDead(t) /\ th[t].pc = "ret"
        /\ th[t].held # NULL /\ th[t].rc1 >= 1
        /\ th[t].newptr \in Addr /\ dcalls[th[t].newptr] = 1

\* C32: sccp_refcount_replace(slot, NULL) on a slot holding a live object
\* executes no retain, takes exactly one reference from that object (which
\* is destroyed if it was its last) and returns with the slot NULL;
\* sccp_refcount_replace(slot, new) on a NULL slot with a live new executes
\* no release, adds exactly one reference to new and returns with the slot
\* holding new; sccp_refcount_replace(slot, NULL) on a NULL slot returns at
\* once and changes no object, no bucket and no slot.
Assigning(t) == th[t].op = "replace" /\ th[t].replaceptr # NULL

PureRelease(t) ==
    Assigning(t) /\ th[t].newptr = NULL /\ th[t].held # NULL /\ th[t].rc1 >= 1

PureStore(t) ==
    Assigning(t) /\ th[t].newptr # NULL /\ th[t].held = NULL /\ th[t].rc0 >= 1

PureNothing(t) ==
    Assigning(t) /\ th[t].newptr = NULL /\ th[t].held = NULL

RetainSteps == {"retain_find", "retain_incr", "replace_retained"}

ReleaseSteps ==
    {"release_find", "release_decr", "release_alive", "remove_obj_list",
     "remove_obj_destroy", "remove_obj_cleanup_check", "remove_obj_cleanup",
     "replace_released"}

ReplaceCasesHold ==
    \A t \in Threads :
        /\ PureRelease(t) =>
              /\ th[t].pc \notin RetainSteps
              /\ slot[th[t].replaceptr] \in {th[t].held, NULL}
              /\ LiveRefcount(th[t].held) \in {th[t].rc1, th[t].rc1 - 1}
              /\ th[t].pc = "ret" =>
                    /\ slot[th[t].replaceptr] = NULL
                    /\ LiveRefcount(th[t].held) = th[t].rc1 - 1
                    /\ dcalls[th[t].held] = (IF th[t].rc1 = 1 THEN 1 ELSE 0)
        /\ PureStore(t) =>
              /\ th[t].pc \notin ReleaseSteps
              /\ slot[th[t].replaceptr] \in {NULL, th[t].newptr}
              /\ LiveRefcount(th[t].newptr) \in {th[t].rc0, th[t].rc0 + 1}
              /\ th[t].pc = "ret" =>
                    /\ slot[th[t].replaceptr] = th[t].newptr
                    /\ LiveRefcount(th[t].newptr) = th[t].rc0 + 1
        /\ PureNothing(t) =>
              /\ th[t].pc \in {"replace_start", "ret"}
              /\ slot[th[t].replaceptr] = NULL

\* the one step of a call with NULL for a NULL slot
NothingStep ==
    \A t \in Threads :
        (PureNothing(t) /\ th'[t] # th[t] /\ th'[t].op = "replace"
                        /\ th'[t].pc # "replace_start") =>
            /\ th'[t].pc = "ret"
            /\ UNCHANGED <<runState, obj_info, heap, objects, slot,
                           numObjects, dcalls>>

C32_ReplaceCases == []ReplaceCasesHold /\ [][NothingStep]_vars

\* a pure release that took the last reference of the object a pure store
\* had put in the slot
C32_Witness ==
    \E t \in Threads :
        PureRelease(t) /\ th[t].pc = "ret" /\ th[t].rc1 = 1

\* C33: a step of sccp_refcount_updateIdentifier changes no bucket, no
\* destructor registration and no header other than the one of the live
\* object the pointer addressed at the call; of that header it changes the
\* identifier only (type, refcount, alive marker and place in its bucket stay
\* and the lookup by address still finds it), and the call returns with the
\* identifier it was given stored; when the pointer addressed no live object
\* at the call (NULL, unmanaged or destroyed) the call changes no header at
\* all and returns from the lookup.
UpdateStep(t) ==
    /\ th[t].op = "updateIdentifier"
    /\ th[t].pc \in {"update_find", "update_copy"}
    /\ th'[t] # th[t]

C33_UpdateIdentifierFrame ==
    [][\A t \in Threads : UpdateStep(t) =>
          /\ UNCHANGED <<runState, obj_info, objects, slot, numObjects, dcalls>>
          /\ \A a \in Addr : a # th[t].held => heap'[a] = heap[a]
          /\ th[t].held # NULL =>
                LET a == th[t].held
                IN /\ [heap'[a] EXCEPT !.identifier = heap[a].identifier] = heap[a]
                   /\ heap'[a].st = "used"
                   /\ heap'[a].alive = SCCP_LIVE_MARKER
                   /\ InList(objects'[SCCP_SIMPLE_HASH(a)].list, a)
                   /\ th[t].pc = "update_copy" =>
                         heap'[a].identifier = th[t].identifier
          /\ th[t].held = NULL => th'[t].pc = "ret"]_vars

\* an update of a live object has returned with another identifier stored
\* than the one the allocation gave, while the other thread is inside a call
C33_Witness ==
    \E t \in Threads :
        /\ th[t].op = "updateIdentifier" /\ th[t].pc = "ret"
        /\ th[t].held # NULL
        /\ heap[th[t].held].identifier = OtherIdentifier
        /\ heap[th[t].held].refcount = th[t].rc0
        /\ \E u \in Threads \ {t} : th[u].pc \notin {"idle", "ret"}

\* C34: however sccp_refcount_destroy interleaves with the releases in
\* flight on the other threads, the destructor of no object is invoked more
\* than once and no header is freed twice. Both the unload (lines 1452-1458)
\* and the release (lines 1665-1671) free a header right after calling its
\* destructor, and every object of these runs has a registered destructor,
\* so the invocations counted are the frees as well; a header that is freed
\* has had exactly one.
C34_NoDoubleDestruction ==
    \A a \in Addr :
        /\ dcalls[a] <= 1
        /\ heap[a].st = "freed" => dcalls[a] = 1
        /\ dcalls[a] = 1 => heap[a].st = "freed" /\ ~InBucket(a)

\* the unload has destroyed an object while a release of it, called while
\* the engine was Running, is between its lookup and its decrement
C34_Witness ==
    \E t \in Threads : \E a \in Addr :
        /\ th[t].op = "release" /\ ~th[t].stopped
        /\ th[t].pc = "release_decr" /\ th[t].obj = a
        /\ dcalls[a] = 1 /\ dby[a].by = "destroy"

\* the thread is inside sccp_hint_notifySubscribers, between the lock of
\* line 593 and the unlock of line 720
Notifying(t) == th[t].pc \in {"ns_loop", "ns_unlock"}

\* C35: sccp_hint_notifySubscribers releases the lock of hint->subscribers
\* on every path by which it returns: a thread that is not inside the
\* function holds the subscriber-list lock of no hint.
C35_NotifyReleasesLock ==
    \A t \in Threads : \A h \in DOMAIN hints :
        hints[h].lock = t => Notifying(t)

\* C36: the hint status functions are reference-neutral: release is never
\* called on a reference that was not obtained; once
\* sccp_hint_notificationForSharedLine or sccp_hint_notificationForSingleLine
\* has returned, and while and after sccp_hint_notifySubscribers runs, the
\* thread owes the line of sccp_hint_hintStatusUpdate and nothing else; once
\* sccp_hint_hintStatusUpdate or the whole call has returned it owes nothing.
C36_ReferenceNeutral ==
    \A t \in Threads :
        th[t].op \in HintOps =>
        /\ th[t].owed >= 0
        /\ th[t].pc \in {"ret", "ls_next"} => th[t].owed = 0
        /\ th[t].pc \in {"ns_lock", "ns_loop", "ns_unlock", "hsu_done"} =>
               th[t].owed = IF th[t].outer = "update" THEN 1 ELSE 0

\* the device references the subscriber entries of the hints in use own
SubscriberRefs(d) == OwnedIn({h \in DOMAIN hints : hints[h].st = "used"}, d)

\* as long as no freed hint has been used, every subscriber entry with a
\* device owns one reference to it
EntriesOwnTheirDevice ==
    ub = "none" => \A d \in Devs : devrefs[d] = SubscriberRefs(d)

\* a step in which sccp_hint_module_stop runs
StopStep == \E t \in Threads : th[t].pc = "stop_all" /\ th'[t].pc = "ret"

\* when sccp_hint_module_stop returns the subscription list is empty and no
\* subscriber entry owns a device reference
StopReleasesAll ==
    StopStep /\ ub = "none" =>
        /\ sccp_hint_subscriptions'.list = <<>>
        /\ \A d \in Devs : devrefs'[d] = 0

C38_OneHintPerPair ==
    LET L == sccp_hint_subscriptions.list
    IN \A i, j \in 1..Len(L) :
          i # j => ~(/\ hints[L[i]].exten = hints[L[j]].exten
                     /\ hints[L[i]].context = hints[L[j]].context)

====
